---------------------------- MODULE Spec2Model ----------------------------
(***************************************************************************)
(* A model of the lorekeeper log rotation package (package lorekeeper).    *)
(*                                                                         *)
(* Eleven specifications share this module.                                *)
(*                                                                         *)
(*   Spec     the goroutines of one process: callers of New, Write, Rotate *)
(*            and Close, the cron goroutine, the registry, the mutex of    *)
(*            every Keeper object.  Each call is split at the points where *)
(*            another goroutine can run.  Byte counts are left out.        *)
(*                                                                         *)
(*   SpecFS   one Keeper and the files of its folder.  Every exported call *)
(*            is one step (the mutex serialises them), the byte counts,    *)
(*            the archive list and the directory are modelled exactly.     *)
(*            New is called with the size limit alone.                     *)
(*                                                                         *)
(*   SpecRet  as SpecFS, New is called with the retention limits alone     *)
(*            and the clock of the archive names advances.                 *)
(*                                                                         *)
(*   SpecGlob one archive name layout: the archive name a rotation renders *)
(*            and the glob pattern the scan of New renders from it.        *)
(*                                                                         *)
(*   SpecPair two Keepers of different names in one folder, the files of   *)
(*            the folder matched by the glob pattern of each.              *)
(*                                                                         *)
(*   SpecZip  one Keeper with and without gzip compression, archive names  *)
(*            as paths, and a scan of New during which a file vanishes.    *)
(*                                                                         *)
(*   SpecLive Spec with the fairness of the Go scheduler and of sync.Mutex:*)
(*            a goroutine that can take its next step takes it.            *)
(*                                                                         *)
(*   SpecAgain Spec from the state in which the first New has returned.    *)
(*                                                                         *)
(*   SpecLog  one Keeper without retention limits and the bytes of its     *)
(*            files: the messages of the Writes, archive by archive.       *)
(*                                                                         *)
(*   SpecGz   Keeper.compress statement by statement.                      *)
(*                                                                         *)
(*   SpecOpts New on a registered name with every short list of options.   *)
(***************************************************************************)
EXTENDS Integers, Sequences, FiniteSets, TLC

(***************************************************************************)
(* Bounds of the model.                                                    *)
(***************************************************************************)
\* the longest archive name layout, in tokens
MaxLayoutLen == 2
\* the longest message handed to Write
MaxMsgLen == 2
\* the largest value given to WithMaxSize
MaxLimit == 1
\* the largest value given to WithMaxFiles
MaxKeep == 1
\* the largest value given to WithTotalSize
MaxTotal == 2
\* the most options one call of New names besides WithName
MaxOpts == 2
\* the clock stops after this many ticks of the archive time layout
MaxClock == MaxKeep
\* no rotation is started once the archive list holds this many records
MaxArchives == MaxKeep + 1
\* no byte is appended once the current file holds this many bytes
MaxFileLen == MaxLimit + MaxMsgLen

\* the file does not exist
NoFile == -1

\* the goroutines calling the package
NProcs == 2
\* the Keeper objects new(Keeper) can allocate
MaxKeepers == 3
\* the calls the goroutines and the cron scheduler make in one run (Spec),
\* the calls made on the two Keepers (SpecPair)
MaxCalls == 4

VARIABLES
    \* ---- Spec ----
    registry,    \* the sync.Map: name -> Keeper object, 0 when absent
    keepers,     \* the Keeper objects
    pathExists,  \* name -> a file exists at getCurrentFilePath()
    pc,          \* goroutine -> where it stands in its call
    op,          \* goroutine -> the call it runs or ran last
    tk,          \* goroutine -> the Keeper object of its call
    late,        \* goroutine -> its call began after a successful Close
    opts,        \* goroutine -> the options of its New
    ref,         \* caller -> the Keeper object its last New returned
    lastApplied, \* name -> the options applied last to the shared Keeper
    calls,       \* the calls made so far
    \* ---- SpecFS, SpecRet ----
    k,          \* the Keeper: configuration, handle, counter, archive list
    current,    \* length of the file at getCurrentFilePath(), or NoFile
    folder,     \* the archives on disk, oldest modification time first
    now,        \* the clock, in units of the archive time layout
    hist,       \* what the last call did (observation only)
    \* ---- SpecGlob ----
    glob,       \* one archive name layout, its renders and the glob match
    \* ---- SpecPair ----
    pair,       \* two Keepers of different names in one folder
    \* ---- SpecLog ----
    log,        \* the bytes of the files of one Keeper, the messages written
    \* ---- SpecGz ----
    zip         \* one call of compress, statement by statement

fsVars == <<k, current, folder, now, hist, glob, pair, log, zip>>

procVars == <<registry, keepers, pathExists, pc, op, tk, late, opts, ref,
              lastApplied, calls>>

\* the variables of the goroutines but the count of calls
procRest == <<registry, keepers, pathExists, pc, op, tk, late, opts, ref,
              lastApplied>>

vars == <<procVars, fsVars>>

(***************************************************************************)
(* Pure helpers.                                                           *)
(***************************************************************************)
RECURSIVE SumSizes(_)
SumSizes(s) == IF s = <<>> THEN 0 ELSE Head(s).size + SumSizes(Tail(s))

RECURSIVE RemovePath(_, _)
RemovePath(s, p) ==
    IF s = <<>> THEN <<>>
    ELSE IF Head(s).filePath = p THEN RemovePath(Tail(s), p)
         ELSE <<Head(s)>> \o RemovePath(Tail(s), p)

PathsOf(s) == {s[i].filePath : i \in 1..Len(s)}

LastN(s, n) == IF Len(s) <= n THEN s ELSE SubSeq(s, Len(s) - n + 1, Len(s))

(***************************************************************************)
(* Keeper.shouldRotate and Keeper.shouldDeleteOldest.                      *)
(***************************************************************************)
shouldRotateGE(kp, n) == kp.maxSize > 0 /\ kp.currentFileSize + n >= kp.maxSize

shouldRotate(kp, n) == kp.maxSize > 0 /\ kp.currentFileSize + n > kp.maxSize

shouldDeleteOldestCountOnly(kp) ==
    kp.maxFiles > 0 /\ kp.maxFiles < Len(kp.archives)

shouldDeleteOldest(kp) ==
    \/ (kp.totalSize > 0 /\ kp.totalSize < kp.archivesSize)
    \/ (kp.maxFiles > 0 /\ kp.maxFiles < Len(kp.archives))

(***************************************************************************)
(* Keeper.newArchiveName: the template rendered with now().Format(layout). *)
(* Two rotations within one unit of the layout render the same name.       *)
(***************************************************************************)
newArchiveName(t) == t

(***************************************************************************)
(* getFileInfo: the stat of one path of the folder.                        *)
(***************************************************************************)
getFileInfo(fol, p) ==
    LET i == CHOOSE j \in 1..Len(fol) : fol[j].filePath = p
    IN  [filePath |-> p, size |-> fol[i].size]

(***************************************************************************)
(* getArchives: glob, stat each match, drain a min-heap keyed by the       *)
(* modification time.  The folder is kept in that order.                   *)
(***************************************************************************)
getArchives(fol) == [list |-> fol, size |-> SumSizes(fol)]

getArchivesSkipMissing(matches, fol) ==
    [list |-> SelectSeq(matches, LAMBDA f : f.filePath \in PathsOf(fol)),
     size |-> SumSizes(SelectSeq(matches,
                                 LAMBDA f : f.filePath \in PathsOf(fol))),
     err  |-> ""]

\* getArchives when the folder changed after filepath.Glob returned matches:
\* the first getFileInfo that fails ends the scan with nil, 0 and the error
getArchivesStat(matches, fol) ==
    IF \E i \in 1..Len(matches) : matches[i].filePath \notin PathsOf(fol)
    THEN [list |-> <<>>, size |-> 0, err |-> "stat"]
    ELSE [list |-> matches, size |-> SumSizes(matches), err |-> ""]

(***************************************************************************)
(* The eviction loop of Keeper.rotate.  st = [k, folder, err].             *)
(***************************************************************************)
evictOnce(st) ==
    IF ~shouldDeleteOldest(st.k) THEN st
    ELSE IF st.k.archives = <<>>
         THEN [st EXCEPT !.err = "dequeue"]
    ELSE LET oldest == Head(st.k.archives)
             k1     == [st.k EXCEPT !.archives = Tail(@)]
         IN  IF oldest.filePath \notin PathsOf(st.folder)
             THEN [st EXCEPT !.k = k1, !.err = "remove"]
             ELSE [st EXCEPT
                     !.k = [k1 EXCEPT !.archivesSize = @ - oldest.size],
                     !.folder = RemovePath(@, oldest.filePath)]

RECURSIVE evict(_)
evict(st) ==
    IF ~shouldDeleteOldest(st.k) THEN st
    ELSE IF st.k.archives = <<>>
         \* Dequeue of an empty list fails
         THEN [st EXCEPT !.err = "dequeue"]
    ELSE LET oldest == Head(st.k.archives)
             k1     == [st.k EXCEPT !.archives = Tail(@)]
         IN  IF oldest.filePath \notin PathsOf(st.folder)
             \* os.Remove of a missing file fails, the record is gone and
             \* archivesSize keeps its bytes
             THEN [st EXCEPT !.k = k1, !.err = "remove"]
             ELSE evict([st EXCEPT
                           !.k = [k1 EXCEPT !.archivesSize = @ - oldest.size],
                           !.folder = RemovePath(@, oldest.filePath)])

(***************************************************************************)
(* Keeper.compress.  The archive is streamed through gzip into the file    *)
(* name + compressionExt, opened with O_APPEND|O_CREATE (a file of that    *)
(* name keeps its bytes and the stream is added to them), then the archive *)
(* is removed.  A path of a compressing Keeper is a sequence of characters.*)
(***************************************************************************)
compressionExt == <<".", "g", "z">>

\* the length of the gzip stream of n bytes: header and trailer, and the
\* deflated bytes
gzipSize(n) == (n \div 2) + 1

\* the length of the file name + compressionExt before the stream is written
compressedBefore(fol, name) ==
    IF (name \o compressionExt) \in PathsOf(fol)
    THEN getFileInfo(fol, name \o compressionExt).size ELSE 0

\* the folder after compress(name) returned nil
compress(fol, name) ==
    Append(RemovePath(RemovePath(fol, name), name \o compressionExt),
           [filePath |-> name \o compressionExt,
            size |-> compressedBefore(fol, name)
                       + gzipSize(getFileInfo(fol, name).size)])

compressFailedCleanup(fol, name) == fol

\* the folder after compress(name) failed once the compressed file was
\* opened: the file is there, nothing was written, the archive stays
compressFailed(fol, name) ==
    IF (name \o compressionExt) \in PathsOf(fol) THEN fol
    ELSE Append(fol, [filePath |-> name \o compressionExt, size |-> 0])

\* a rename that leaves a file at the new path as it is
osRenameKeepsTarget(fol, name, size) ==
    IF name \in PathsOf(fol) THEN fol
    ELSE Append(fol, [filePath |-> name, size |-> size])

\* os.Rename(currentFilePath, name) of a current file of this size: a file
\* at the new path is replaced
osRename(fol, name, size) ==
    RemovePath(fol, name) \o <<[filePath |-> name, size |-> size]>>

(***************************************************************************)
(* Keeper.rotate.  fault = "rename" makes os.Rename fail; with fault =     *)
(* "found" the path of the current file holds one byte when getCurrentFile *)
(* opens it (another process of the same configuration appended to it      *)
(* after the rename, or the layout rendered the path of the current file   *)
(* and the rename moved nothing); fault = "compress" makes compress fail.  *)
(* The result is [k, current, folder, err], err = "" on success.           *)
(***************************************************************************)
rotate(kp, cur, fol, t, fault) ==
    IF kp.currentFile # "open"
    \* Close of a closed *os.File returns an error
    THEN [k |-> kp, current |-> cur, folder |-> fol, err |-> "close"]
    ELSE
    LET k1          == [kp EXCEPT !.currentFile = "closed"]
        archiveName == newArchiveName(t)
    IN  IF fault = "rename" \/ cur = NoFile
        THEN [k |-> k1, current |-> cur, folder |-> fol, err |-> "rename"]
        ELSE
        LET fol1 == osRename(fol, archiveName, cur)
            fol2 == IF kp.gzip THEN compress(fol1, archiveName) ELSE fol1
            archiveInfo ==
                getFileInfo(fol2, IF kp.gzip THEN archiveName \o compressionExt
                                  ELSE archiveName)
            k2   == [k1 EXCEPT !.archivesSize = @ + archiveInfo.size,
                               !.archives = Append(@, archiveInfo)]
            ev   == evict([k |-> k2, folder |-> fol2, err |-> ""])
        IN  IF kp.gzip /\ fault = "compress"
            THEN [k |-> k1, current |-> NoFile,
                  folder |-> compressFailed(fol1, archiveName),
                  err |-> "compress"]
            ELSE
            IF ev.err # ""
            THEN [k |-> ev.k, current |-> NoFile, folder |-> ev.folder,
                  err |-> ev.err]
            ELSE \* getCurrentFile opens or creates the file, the counter
                 \* restarts at 0
                 [k |-> [ev.k EXCEPT !.currentFile = "open",
                                     !.currentFileSize = 0],
                  current |-> IF fault = "found" THEN 1 ELSE 0,
                  folder |-> ev.folder, err |-> ""]

(***************************************************************************)
(* Keeper.applyOpts on a Keeper of this name (a fresh one, or the shared   *)
(* one when New finds it in the registry): options, getCurrentFile with    *)
(* O_APPEND|O_CREATE, Stat, getArchives.                                   *)
(***************************************************************************)
applyOptsZeroCounter(o, cur, fol) ==
    LET scan == getArchives(fol)
    IN  [maxSize |-> o.maxSize, maxFiles |-> o.maxFiles,
         totalSize |-> o.totalSize,
         gzip |-> IF "gzip" \in DOMAIN o THEN o.gzip ELSE FALSE,
         currentFile |-> "open", currentFileSize |-> 0,
         archives |-> scan.list, archivesSize |-> scan.size]

applyOpts(o, cur, fol) ==
    LET len  == IF cur = NoFile THEN 0 ELSE cur
        scan == getArchives(fol)
    IN  [maxSize |-> o.maxSize, maxFiles |-> o.maxFiles,
         \* NoCompression() is among the default options of New
         totalSize |-> o.totalSize,
         gzip |-> IF "gzip" \in DOMAIN o THEN o.gzip ELSE FALSE,
         currentFile |-> "open", currentFileSize |-> len,
         archives |-> scan.list, archivesSize |-> scan.size]

(***************************************************************************)
(* Archive names.  A string is a sequence of characters, a layout is a     *)
(* sequence of tokens: the variables "time", "name", "extension" and       *)
(* literal characters.                                                     *)
(***************************************************************************)
RECURSIVE Concat(_)
Concat(ss) == IF ss = <<>> THEN <<>> ELSE Head(ss) \o Concat(Tail(ss))

\* archiveNameLayout.Execute with the values of the three variables
Execute(tpl, time, name, extension) ==
    Concat([i \in 1..Len(tpl) |->
              CASE tpl[i] = "time" -> time
                [] tpl[i] = "name" -> name
                [] tpl[i] = "extension" -> extension
                [] OTHER -> <<tpl[i]>>])

\* path.Join(k.folder, s); the folder of the model is "d"
Join(s) == <<"d", "/">> \o s

\* Keeper.newArchiveName with now().Format(k.timeLayout) = time
newArchiveNameOf(tpl, time, name, extension) ==
    Join(Execute(tpl, time, name, extension))

\* Keeper.getArchiveGlobPattern: the layout with "*" for the time, and a
\* "*" appended unless the pattern ends in one
getArchiveGlobPattern(tpl, name, extension) ==
    LET pattern == Execute(tpl, <<"*">>, name, extension)
    IN  Join(IF pattern[Len(pattern)] # "*" THEN Append(pattern, "*")
             ELSE pattern)

\* the index of the first "]" of s, 0 when there is none
RECURSIVE IndexOfClose(_, _)
IndexOfClose(s, i) ==
    IF i > Len(s) THEN 0
    ELSE IF s[i] = "]" THEN i ELSE IndexOfClose(s, i + 1)

\* filepath.Match, the syntax filepath.Glob applies to each path: "*" is
\* any run of non-separator characters, "?" one of them, "[" ... "]" one
\* character of the class, anything else itself.  A class that is empty
\* or not closed is ErrBadPattern: nothing matches.
RECURSIVE Match(_, _)
Match(pat, s) ==
    IF pat = <<>> THEN s = <<>>
    ELSE
    LET h == Head(pat) IN
    CASE h = "*" ->
           \E i \in 0..Len(s) :
               /\ \A j \in 1..i : s[j] # "/"
               /\ Match(Tail(pat), SubSeq(s, i + 1, Len(s)))
      [] h = "?" -> s # <<>> /\ Head(s) # "/" /\ Match(Tail(pat), Tail(s))
      [] h = "[" ->
           LET c == IndexOfClose(pat, 3)
           IN  /\ Len(pat) >= 2 /\ pat[2] # "]"
               /\ c # 0
               /\ s # <<>>
               /\ \E j \in 2..(c - 1) : pat[j] = Head(s)
               /\ Match(SubSeq(pat, c + 1, Len(pat)), Tail(s))
      [] OTHER -> s # <<>> /\ Head(s) = h /\ Match(Tail(pat), Tail(s))

\* no layout was rendered
NoGlob == [stage |-> "none", tpl |-> <<>>, time |-> <<>>, name |-> <<>>,
           extension |-> <<>>, archive |-> <<>>, pattern |-> <<>>,
           matched |-> FALSE, zmatched |-> FALSE]

(***************************************************************************)
(* Two Keepers of different names, one folder, one archive name layout.    *)
(* files is the folder as the file system has it: the current files and    *)
(* the archives, oldest modification time first.                            *)
(***************************************************************************)
PairNames == {<<"a">>, <<"b">>}

PairExtension == <<".", "l">>

\* now().Format(k.timeLayout) at clock t
Format(t) == <<ToString(t)>>

\* Keeper.getCurrentFilePath
getCurrentFilePath(name) == Join(name \o PairExtension)

\* the length of the file at path p, NoFile when there is none
SizeAt(files, p) ==
    IF p \in PathsOf(files) THEN getFileInfo(files, p).size ELSE NoFile

\* filepath.Glob(pattern) over the folder
Glob(files, pattern) == SelectSeq(files, LAMBDA f : Match(pattern, f.filePath))

\* a Keeper that New did not build yet
NilKeeper == [maxSize |-> 0, maxFiles |-> 0, totalSize |-> 0, gzip |-> FALSE,
              currentFile |-> "nil", currentFileSize |-> 0,
              archives |-> <<>>, archivesSize |-> 0]

NoPair == [tpl |-> <<>>, files |-> <<>>,
           k |-> [n \in PairNames |-> NilKeeper],
           made |-> [n \in PairNames |-> {}], calls |-> 0]

\* no byte on disk, no message written
NoLog == [files |-> <<>>, cur |-> <<>>, sent |-> <<>>]

\* no call of compress
NoZip == [pc |-> "idle", data |-> <<>>, plain |-> FALSE, gz |-> <<>>,
          had |-> FALSE, buf |-> <<>>, err |-> ""]

\* nothing happened yet
NoHist == [op |-> "New", ok |-> TRUE, rotated |-> FALSE, pre |-> 0, len |-> 0,
           nrot |-> 0, recent |-> <<>>, rotOK |-> TRUE, big |-> FALSE,
           rerr |-> "", ret |-> 0, first |-> FALSE, evicted |-> 0,
           over |-> FALSE]

(***************************************************************************)
(* The process: goroutines, registry, Keeper objects.                      *)
(***************************************************************************)
Names == {"a", "b"}

Procs == 1..NProcs

\* the goroutine the cron scheduler runs func() { _ = k.Rotate() } in
Cron == 0

Threads == Procs \cup {Cron}

KeeperIds == 1..MaxKeepers

\* no goroutine holds the mutex
NoThread == -1

\* no schedule: NoCron()
NoSpec == 0

\* the option lists New is called with: WithName, WithMaxSize, and
\* WithCron or nothing (the default NoCron)
NewOpts == {[name |-> "a", maxSize |-> 1, cron |-> NoSpec],
            [name |-> "a", maxSize |-> 2, cron |-> 1],
            [name |-> "b", maxSize |-> 1, cron |-> NoSpec]}

NoOpts == [name |-> "", maxSize |-> 0, cron |-> NoSpec]

\* new(Keeper) before any option
NoKeeper == [name |-> "", maxSize |-> 0, cron |-> NoSpec, sched |-> "nil",
             mu |-> NoThread, currentFile |-> "nil", shared |-> FALSE,
             closing |-> FALSE, closed |-> FALSE]

InitProcs ==
    /\ registry = [n \in Names |-> 0]
    /\ keepers = [i \in KeeperIds |-> NoKeeper]
    /\ pathExists = [n \in Names |-> FALSE]
    /\ pc = [t \in Threads |-> "idle"]
    /\ op = [t \in Threads |-> "none"]
    /\ tk = [t \in Threads |-> 0]
    /\ late = [t \in Threads |-> FALSE]
    /\ opts = [t \in Threads |-> NoOpts]
    /\ ref = [p \in Procs |-> 0]
    /\ lastApplied = [n \in Names |-> NoOpts]
    /\ calls = 0

InitFiles ==
    /\ now = 0
    /\ folder = <<>>
    /\ current = NoFile
    /\ k = NoKeeper
    /\ hist = NoHist
    /\ glob = NoGlob
    /\ pair = NoPair
    /\ log = NoLog /\ zip = NoZip

Init == InitProcs /\ InitFiles

\* the goroutine is between two calls
AtRest(t) == pc[t] \in {"idle", "ok", "err"}

\* the configuration of a Keeper, as the options that give it
ConfigOf(kid) == [name |-> keepers[kid].name, maxSize |-> keepers[kid].maxSize,
                  cron |-> keepers[kid].cron]

\* sync.Mutex: Lock blocks while another goroutine holds it
mutexFree(kid) == keepers[kid].mu = NoThread

\* the deferred k.mu.Unlock() and the return of the call
Return(t, kp, result) ==
    /\ pc' = [pc EXCEPT ![t] = result]
    /\ keepers' = [kp EXCEPT ![tk[t]].mu = NoThread]

\* t calls name on Keeper kid and holds its mutex
Locked(t, name, kid, kp, next) ==
    /\ AtRest(t)
    /\ calls < MaxCalls
    /\ calls' = calls + 1
    /\ op' = [op EXCEPT ![t] = name]
    /\ tk' = [tk EXCEPT ![t] = kid]
    /\ late' = [late EXCEPT ![t] = keepers[kid].closed]
    /\ opts' = [opts EXCEPT ![t] = NoOpts]
    /\ keepers' = [kp EXCEPT ![kid].mu = t]
    /\ pc' = [pc EXCEPT ![t] = next]

(***************************************************************************)
(* New.  The candidate: new(Keeper), applyOpts (options, getCurrentFile    *)
(* creates the file, WithCron starts a scheduler whose job rotates the     *)
(* candidate).                                                             *)
(***************************************************************************)
New_candidate(p, o) ==
    /\ AtRest(p)
    \* the goroutines are numbered in the order of their first call
    /\ \A q \in Procs : q < p => pc[q] # "idle"
    /\ calls < MaxCalls
    /\ calls' = calls + 1
    /\ \E c \in KeeperIds :
         /\ keepers[c].name = ""
         /\ \A d \in KeeperIds : d < c => keepers[d].name # ""
         /\ keepers' = [keepers EXCEPT ![c] =
                [NoKeeper EXCEPT !.name = o.name, !.maxSize = o.maxSize,
                                 !.cron = o.cron,
                                 !.sched = IF o.cron = NoSpec THEN "nil"
                                           ELSE "running",
                                 !.currentFile = "open"]]
         /\ tk' = [tk EXCEPT ![p] = c]
    /\ pathExists' = [pathExists EXCEPT ![o.name] = TRUE]
    /\ op' = [op EXCEPT ![p] = "New"]
    /\ opts' = [opts EXCEPT ![p] = o]
    /\ late' = [late EXCEPT ![p] = FALSE]
    /\ pc' = [pc EXCEPT ![p] = "register"]
    /\ UNCHANGED <<registry, ref, lastApplied, fsVars>>

\* register: registry.LoadOrStore(name, keeper).  A stored candidate is
\* returned at once, a loaded Keeper is reconfigured under its mutex.
New_register(p) ==
    /\ pc[p] = "register"
    /\ LET name == keepers[tk[p]].name
       IN  IF registry[name] = 0
           THEN /\ registry' = [registry EXCEPT ![name] = tk[p]]
                /\ keepers' = [keepers EXCEPT ![tk[p]].shared = TRUE]
                /\ ref' = [ref EXCEPT ![p] = tk[p]]
                /\ lastApplied' = [lastApplied EXCEPT ![name] = opts[p]]
                /\ pc' = [pc EXCEPT ![p] = "ok"]
                /\ UNCHANGED tk
           ELSE /\ tk' = [tk EXCEPT ![p] = registry[name]]
                /\ pc' = [pc EXCEPT ![p] = "new_lock"]
                /\ UNCHANGED <<registry, keepers, ref, lastApplied>>
    /\ UNCHANGED <<pathExists, op, late, opts, calls, fsVars>>

New_lock_NoMutex(p) ==
    /\ pc[p] = "new_lock"
    /\ keepers' = [keepers EXCEPT ![tk[p]].mu = p,
                                  ![tk[p]].maxSize = opts[p].maxSize,
                                  ![tk[p]].cron = NoSpec,
                                  ![tk[p]].sched = "nil"]
    /\ pc' = [pc EXCEPT ![p] = "new_open"]
    /\ UNCHANGED <<registry, pathExists, op, tk, late, opts, ref, lastApplied, calls,
                   fsVars>>

\* keeper.mu.Lock(), then applyOpts on the shared Keeper: the defaults and
\* the options up to NoCron() (which stops a running scheduler)
New_lock(p) ==
    /\ pc[p] = "new_lock"
    /\ mutexFree(tk[p])
    /\ keepers' = [keepers EXCEPT ![tk[p]].mu = p,
                                  ![tk[p]].maxSize = opts[p].maxSize,
                                  ![tk[p]].cron = NoSpec,
                                  ![tk[p]].sched = "nil"]
    /\ pc' = [pc EXCEPT ![p] = "new_open"]
    /\ UNCHANGED <<registry, pathExists, op, tk, late, opts, ref, lastApplied, calls,
                   fsVars>>

New_open_KeepSchedule(p) ==
    /\ pc[p] = "new_open"
    /\ LET name == keepers[tk[p]].name
       IN  /\ pathExists' = [pathExists EXCEPT ![name] = TRUE]
           /\ lastApplied' = [lastApplied EXCEPT ![name] = opts[p]]
    /\ Return(p, [keepers EXCEPT
                    ![tk[p]].cron = IF opts[p].cron = NoSpec
                                    THEN lastApplied[keepers[tk[p]].name].cron
                                    ELSE opts[p].cron,
                    ![tk[p]].sched =
                        IF opts[p].cron = NoSpec
                           /\ lastApplied[keepers[tk[p]].name].cron = NoSpec
                        THEN "nil" ELSE "running",
                    ![tk[p]].currentFile = "open"], "ok")
    /\ ref' = [ref EXCEPT ![p] = tk[p]]
    /\ UNCHANGED <<registry, op, tk, late, opts, calls, fsVars>>

\* the rest of applyOpts (WithCron when the call has it, getCurrentFile,
\* Stat, getArchives), the deferred Unlock, the return of the shared Keeper
New_open(p) ==
    /\ pc[p] = "new_open"
    /\ LET name == keepers[tk[p]].name
       IN  /\ pathExists' = [pathExists EXCEPT ![name] = TRUE]
           /\ lastApplied' = [lastApplied EXCEPT ![name] = opts[p]]
    /\ Return(p, [keepers EXCEPT
                    ![tk[p]].cron = opts[p].cron,
                    ![tk[p]].sched = IF opts[p].cron = NoSpec THEN "nil"
                                     ELSE "running",
                    ![tk[p]].currentFile = "open"], "ok")
    /\ ref' = [ref EXCEPT ![p] = tk[p]]
    /\ UNCHANGED <<registry, op, tk, late, opts, calls, fsVars>>

\* applyOpts on the shared Keeper fails after the options: at
\* getCurrentFile (fault "open", the old handle stays) or at getArchives
\* (fault "scan", the file was reopened).  New returns nil and the error.
New_open_fail(p, fault) ==
    /\ pc[p] = "new_open"
    /\ LET name == keepers[tk[p]].name
       IN  /\ pathExists' = [pathExists EXCEPT
                               ![name] = IF fault = "scan" THEN TRUE ELSE @]
           /\ lastApplied' = [lastApplied EXCEPT ![name] = opts[p]]
    /\ Return(p, [keepers EXCEPT
                    ![tk[p]].cron = opts[p].cron,
                    ![tk[p]].sched = IF opts[p].cron = NoSpec THEN "nil"
                                     ELSE "running",
                    ![tk[p]].currentFile = IF fault = "scan" THEN "open"
                                           ELSE @], "err")
    /\ UNCHANGED <<registry, op, tk, late, opts, ref, calls, fsVars>>

(***************************************************************************)
(* Keeper.Write.                                                           *)
(***************************************************************************)
\* k.mu.Lock() and k.shouldRotate(msg); the byte counts that decide it are
\* those of SpecFS, here the answer is either one
Write_lock(p, rot) ==
    /\ ref[p] # 0
    /\ mutexFree(ref[p])
    /\ Locked(p, "Write", ref[p], keepers,
              IF rot THEN "rot_rename" ELSE "w_append")
    /\ UNCHANGED <<registry, pathExists, ref, lastApplied, fsVars>>

\* k.currentFile.Write(msg), which fails on a closed file
Write_append(p) ==
    /\ pc[p] = "w_append"
    /\ Return(p, keepers,
              IF keepers[tk[p]].currentFile = "open" THEN "ok" ELSE "err")
    /\ UNCHANGED <<registry, pathExists, op, tk, late, opts, ref, lastApplied, calls,
                   fsVars>>

(***************************************************************************)
(* Keeper.Rotate, called by a goroutine or by the cron scheduler.          *)
(***************************************************************************)
Rotate_lock(p) ==
    /\ ref[p] # 0
    /\ mutexFree(ref[p])
    /\ Locked(p, "Rotate", ref[p], keepers, "rot_rename")
    /\ UNCHANGED <<registry, pathExists, ref, lastApplied, fsVars>>

\* the scheduler of Keeper kid runs its entry, func() { _ = k.Rotate() },
\* in a goroutine of its own; the job has not locked k.mu yet
Cron_fire(kid) ==
    /\ keepers[kid].sched = "running"
    /\ AtRest(Cron)
    /\ calls < MaxCalls
    /\ calls' = calls + 1
    /\ op' = [op EXCEPT ![Cron] = "Rotate"]
    /\ tk' = [tk EXCEPT ![Cron] = kid]
    /\ late' = [late EXCEPT ![Cron] = keepers[kid].closed]
    /\ opts' = [opts EXCEPT ![Cron] = NoOpts]
    /\ pc' = [pc EXCEPT ![Cron] = "cron_lock"]
    /\ UNCHANGED <<registry, keepers, pathExists, ref, lastApplied, fsVars>>

Cron_lock_NoMutex ==
    /\ pc[Cron] = "cron_lock"
    /\ keepers' = [keepers EXCEPT ![tk[Cron]].mu = Cron]
    /\ pc' = [pc EXCEPT ![Cron] = "rot_rename"]
    /\ UNCHANGED <<registry, pathExists, op, tk, late, opts, ref, lastApplied,
                   calls, fsVars>>

\* k.mu.Lock() of the job: it waits while a Write, Rotate, Close or New
\* holds the mutex, also after the scheduler that ran it was stopped
Cron_lock ==
    /\ pc[Cron] = "cron_lock"
    /\ mutexFree(tk[Cron])
    /\ keepers' = [keepers EXCEPT ![tk[Cron]].mu = Cron]
    /\ pc' = [pc EXCEPT ![Cron] = "rot_rename"]
    /\ UNCHANGED <<registry, pathExists, op, tk, late, opts, ref, lastApplied,
                   calls, fsVars>>

(***************************************************************************)
(* Keeper.rotate, under the mutex of the caller.                           *)
(***************************************************************************)
\* a Close that takes the Keeper out of the registry when its rotation fails
rotate_rename_CloseUnregisters(t) ==
    /\ pc[t] = "rot_rename"
    /\ LET name == keepers[tk[t]].name
           kp   == [keepers EXCEPT ![tk[t]].currentFile = "closed"]
           out  == IF op[t] = "Close" THEN [registry EXCEPT ![name] = 0]
                   ELSE registry
       IN  IF keepers[tk[t]].currentFile # "open"
           THEN /\ Return(t, keepers, "err")
                /\ registry' = out
                /\ UNCHANGED pathExists
           ELSE IF ~pathExists[name]
           THEN /\ Return(t, kp, "err")
                /\ registry' = out
                /\ UNCHANGED pathExists
           ELSE /\ pathExists' = [pathExists EXCEPT ![name] = FALSE]
                /\ keepers' = kp
                /\ pc' = [pc EXCEPT ![t] = "rot_open"]
                /\ UNCHANGED registry
    /\ UNCHANGED <<op, tk, late, opts, ref, lastApplied, calls, fsVars>>

\* k.currentFile.Close(), which fails on a closed file, and os.Rename of
\* the current file, which fails when the file is gone
rotate_rename(t) ==
    /\ pc[t] = "rot_rename"
    /\ LET name == keepers[tk[t]].name
           kp   == [keepers EXCEPT ![tk[t]].currentFile = "closed"]
       IN  IF keepers[tk[t]].currentFile # "open"
           THEN /\ Return(t, keepers, "err")
                /\ UNCHANGED pathExists
           ELSE IF ~pathExists[name]
           THEN /\ Return(t, kp, "err")
                /\ UNCHANGED pathExists
           ELSE /\ pathExists' = [pathExists EXCEPT ![name] = FALSE]
                /\ keepers' = kp
                /\ pc' = [pc EXCEPT ![t] = "rot_open"]
    /\ UNCHANGED <<registry, op, tk, late, opts, ref, lastApplied, calls, fsVars>>

\* compress, the archive record, the eviction loop, getCurrentFile, then
\* back in Write, Rotate or Close
rotate_open(t) ==
    /\ pc[t] = "rot_open"
    /\ pathExists' = [pathExists EXCEPT ![keepers[tk[t]].name] = TRUE]
    /\ LET kp == [keepers EXCEPT ![tk[t]].currentFile = "open"]
       IN  CASE op[t] = "Write" -> /\ keepers' = kp
                                   /\ pc' = [pc EXCEPT ![t] = "w_append"]
            [] op[t] = "Close" -> /\ keepers' = kp
                                  /\ pc' = [pc EXCEPT ![t] = "c_free"]
            [] OTHER -> Return(t, kp, "ok")
    /\ UNCHANGED <<registry, op, tk, late, opts, ref, lastApplied, calls, fsVars>>

(***************************************************************************)
(* Keeper.Close.                                                           *)
(***************************************************************************)
Close_lock(p) ==
    /\ ref[p] # 0
    /\ mutexFree(ref[p])
    /\ Locked(p, "Close", ref[p],
              [keepers EXCEPT ![ref[p]].closing = TRUE], "rot_rename")
    /\ UNCHANGED <<registry, pathExists, ref, lastApplied, fsVars>>

Close_free_KeepRegistered(p) ==
    /\ pc[p] = "c_free"
    /\ Return(p, [keepers EXCEPT
                    ![tk[p]].sched = IF @ = "nil" THEN "nil" ELSE "stopped",
                    ![tk[p]].currentFile = "closed",
                    ![tk[p]].closed = TRUE], "ok")
    /\ UNCHANGED <<registry, pathExists, op, tk, late, opts, ref, lastApplied,
                   calls, fsVars>>

Close_free_WaitsForJob(p) ==
    /\ pc[p] = "c_free"
    /\ ~(pc[Cron] = "cron_lock" /\ tk[Cron] = tk[p])
    /\ registry' = [registry EXCEPT ![keepers[tk[p]].name] = 0]
    /\ Return(p, [keepers EXCEPT
                    ![tk[p]].sched = IF @ = "nil" THEN "nil" ELSE "stopped",
                    ![tk[p]].currentFile = "closed",
                    ![tk[p]].closed = TRUE], "ok")
    /\ UNCHANGED <<pathExists, op, tk, late, opts, ref, lastApplied, calls, fsVars>>

\* unregister(k.name) and k.free(): stop the scheduler, close the file.
\* cron.Stop() does not wait for a job that is running.
Close_free(p) ==
    /\ pc[p] = "c_free"
    /\ registry' = [registry EXCEPT ![keepers[tk[p]].name] = 0]
    /\ Return(p, [keepers EXCEPT
                    ![tk[p]].sched = IF @ = "nil" THEN "nil" ELSE "stopped",
                    ![tk[p]].currentFile = "closed",
                    ![tk[p]].closed = TRUE], "ok")
    /\ UNCHANGED <<pathExists, op, tk, late, opts, ref, lastApplied, calls, fsVars>>

Next ==
    \/ \E p \in Procs, o \in NewOpts : New_candidate(p, o)
    \/ \E p \in Procs : New_register(p)
    \/ \E p \in Procs : New_lock(p)
    \/ \E p \in Procs : New_open(p)
    \/ \E p \in Procs, fault \in {"open", "scan"} : New_open_fail(p, fault)
    \/ \E p \in Procs, rot \in BOOLEAN : Write_lock(p, rot)
    \/ \E p \in Procs : Write_append(p)
    \/ \E p \in Procs : Rotate_lock(p)
    \/ \E kid \in KeeperIds : Cron_fire(kid)
    \/ Cron_lock
    \/ \E t \in Threads : rotate_rename(t)
    \/ \E t \in Threads : rotate_open(t)
    \/ \E p \in Procs : Close_lock(p)
    \/ \E p \in Procs : Close_free(p)

Spec == Init /\ [][Next]_vars

(***************************************************************************)
(* SpecAgain: Spec from the state in which the first New has returned its  *)
(* Keeper to goroutine 1; calls counts the calls made after it.            *)
(***************************************************************************)
\* the process after New(o...) of goroutine 1 stored its candidate
Registered(o) ==
    /\ registry = [n \in Names |-> IF n = o.name THEN 1 ELSE 0]
    /\ keepers = [i \in KeeperIds |->
                    IF i = 1
                    THEN [NoKeeper EXCEPT
                            !.name = o.name, !.maxSize = o.maxSize,
                            !.cron = o.cron,
                            !.sched = IF o.cron = NoSpec THEN "nil"
                                      ELSE "running",
                            !.currentFile = "open", !.shared = TRUE]
                    ELSE NoKeeper]
    /\ pathExists = [n \in Names |-> n = o.name]
    /\ pc = [t \in Threads |-> IF t = 1 THEN "ok" ELSE "idle"]
    /\ op = [t \in Threads |-> IF t = 1 THEN "New" ELSE "none"]
    /\ tk = [t \in Threads |-> IF t = 1 THEN 1 ELSE 0]
    /\ late = [t \in Threads |-> FALSE]
    /\ opts = [t \in Threads |-> IF t = 1 THEN o ELSE NoOpts]
    /\ ref = [p \in Procs |-> IF p = 1 THEN 1 ELSE 0]
    /\ lastApplied = [n \in Names |-> IF n = o.name THEN o ELSE NoOpts]

InitAgain ==
    /\ InitFiles
    /\ \E o \in NewOpts : Registered(o)
    /\ calls = 0

SpecAgain == InitAgain /\ [][Next]_vars

(***************************************************************************)
(* SpecLive: Spec with the scheduling of Go.  A goroutine that can take    *)
(* its next step takes it; a goroutine blocked in Lock gets the mutex once *)
(* it stays free.  Whether a caller makes another call is up to it.        *)
(***************************************************************************)
Fairness ==
    /\ \A p \in Procs : WF_vars(New_register(p))
    /\ \A p \in Procs : WF_vars(New_lock(p))
    /\ \A p \in Procs :
          WF_vars(New_open(p) \/ \E fault \in {"open", "scan"} :
                                    New_open_fail(p, fault))
    /\ \A p \in Procs : WF_vars(Write_append(p))
    /\ WF_vars(Cron_lock)
    /\ \A t \in Threads : WF_vars(rotate_rename(t))
    /\ \A t \in Threads : WF_vars(rotate_open(t))
    /\ \A p \in Procs : WF_vars(Close_free(p))

SpecLive == Init /\ [][Next]_vars /\ Fairness

(***************************************************************************)
(* Properties of Spec.                                                     *)
(***************************************************************************)
\* t has closed and renamed the current file and has not reopened it
MidRotation(t) == pc[t] = "rot_open"

\* t is in a section that Write, Rotate, Close or New run under k.mu
InCritical(t) == pc[t] \in {"new_open", "w_append", "rot_rename", "rot_open",
                            "c_free"}

\* the New of p has returned
Returned(p) == pc[p] = "ok" /\ op[p] = "New"

\* a New with this name has not returned yet
NewInProgress(n) ==
    \E p \in Procs : pc[p] \in {"register", "new_lock", "new_open"}
                      /\ opts[p].name = n

\* a Close of a Keeper with this name has begun
CloseBegun(n) == \E c \in KeeperIds : keepers[c].name = n /\ keepers[c].closing

\* C1: for every name, at most one goroutine is in the middle of a
\* rotation of the current file of that name, over all the Keeper objects
\* built for the name and the schedulers armed on them.
C1_OneRotationPerName ==
    \A n \in Names :
        Cardinality({t \in Threads : MidRotation(t)
                                     /\ keepers[tk[t]].name = n}) <= 1

\* C2: on one Keeper the sections of Write, Rotate, Close and the
\* reconfiguration of New never overlap: whoever is in one holds the mutex,
\* and no rotation (of a caller or of the scheduler) runs on a Keeper
\* between the size check of a Write and its append.
C2_CriticalSectionsExclusive ==
    /\ \A t \in Threads : InCritical(t) => keepers[tk[t]].mu = t
    /\ \A s, t \in Threads :
          (s # t /\ InCritical(s) /\ InCritical(t)) => tk[s] # tk[t]
    /\ \A p \in Procs, t \in Threads :
          (pc[p] = "w_append" /\ t # p /\ tk[t] = tk[p])
              => pc[t] \notin {"rot_rename", "rot_open"}

\* a Write is between its size check and its append on a Keeper whose
\* scheduler is armed and has rotated that Keeper before
C2_Witness ==
    \E p \in Procs :
        /\ pc[p] = "w_append"
        /\ keepers[tk[p]].sched = "running"
        /\ tk[Cron] = tk[p] /\ op[Cron] = "Rotate" /\ pc[Cron] = "ok"

\* C3: for every name, at most one Keeper that New has returned holds an
\* open current file, whatever the interleaving of New and Close.
C3_OneLiveKeeperPerName ==
    \A n \in Names :
        Cardinality({c \in KeeperIds : /\ keepers[c].name = n
                                       /\ keepers[c].shared
                                       /\ keepers[c].currentFile = "open"}) <= 1

\* C4: while no Close has begun on a name, the New calls that returned
\* with that name returned one Keeper, calls with different names returned
\* different Keepers, each Keeper carries the name asked for, and once no
\* New is running the registered Keeper has the options applied last.
C4_SameInstanceLastConfig ==
    /\ \A p, q \in Procs :
          (Returned(p) /\ Returned(q)) =>
             /\ keepers[ref[p]].name = opts[p].name
             /\ opts[p].name # opts[q].name => ref[p] # ref[q]
             /\ (opts[p].name = opts[q].name /\ ~CloseBegun(opts[p].name))
                    => (ref[p] = ref[q] /\ ref[p] = registry[opts[p].name])
    /\ \A n \in Names :
          (registry[n] # 0 /\ ~NewInProgress(n) /\ ~CloseBegun(n)) =>
             /\ ConfigOf(registry[n]) = lastApplied[n]
             /\ keepers[registry[n]].sched =
                    IF lastApplied[n].cron = NoSpec THEN "nil" ELSE "running"

\* two callers hold the same Keeper, built by the first and reconfigured
\* by the second with other options
C4_Witness ==
    \E p, q \in Procs :
        /\ p # q /\ Returned(p) /\ Returned(q)
        /\ opts[p].name = opts[q].name /\ opts[p] # opts[q]
        /\ ~CloseBegun(opts[p].name)
        /\ ref[p] = ref[q]
        /\ ConfigOf(ref[q]) = opts[q]

\* C24: when a New on a registered name is through with the shared Keeper,
\* the Keeper has the trigger of that call and no other: no scheduler when
\* the call gave no schedule, a running scheduler with the schedule of the
\* call when it gave one.  A scheduler fires only while it is the one of
\* the Keeper: never between the NoCron() of a New and its return, never
\* with no schedule, never after it was stopped.
C24_TriggerOfLatestNew ==
    [][/\ \A p \in Procs :
             (pc[p] = "new_open" /\ pc'[p] # "new_open") =>
                 /\ keepers'[tk[p]].cron = opts[p].cron
                 /\ keepers'[tk[p]].sched = IF opts[p].cron = NoSpec THEN "nil"
                                            ELSE "running"
       /\ \A p \in Procs :
             pc[p] = "new_open" => keepers[tk[p]].sched = "nil"
       /\ (pc[Cron] # "cron_lock" /\ pc'[Cron] = "cron_lock") =>
             /\ keepers[tk'[Cron]].sched = "running"
             /\ keepers[tk'[Cron]].cron # NoSpec
             /\ \A p \in Procs : ~(pc[p] = "new_open" /\ tk[p] = tk'[Cron])]_vars

\* the scheduler of the shared Keeper has rotated it, and a later New with
\* no schedule has returned the Keeper with no scheduler
C24_Witness ==
    \E p \in Procs :
        /\ Returned(p) /\ opts[p].cron = NoSpec
        /\ keepers[ref[p]].shared /\ registry[keepers[ref[p]].name] = ref[p]
        /\ keepers[ref[p]].sched = "nil" /\ keepers[ref[p]].cron = NoSpec
        /\ tk[Cron] = ref[p] /\ op[Cron] = "Rotate" /\ pc[Cron] = "ok"
        /\ \E q \in Procs : q # p /\ ref[q] = ref[p]

\* C26: every call of New, Write, Rotate or Close that has begun returns,
\* and a mutex that is held is released, whether the rotation inside the
\* call fails or not, and also when a job of the scheduler waits for the
\* mutex while Close or New holds it and stops the scheduler.
C26_CallsReturn ==
    /\ \A t \in Threads : (~AtRest(t)) ~> AtRest(t)
    /\ \A c \in KeeperIds : (~mutexFree(c)) ~> mutexFree(c)

\* a job of the scheduler waits for the mutex while Close is about to stop
\* the scheduler
C26_Witness ==
    \E p \in Procs :
        /\ pc[Cron] = "cron_lock" /\ tk[Cron] = tk[p]
        /\ pc[p] = "c_free" /\ keepers[tk[p]].mu = p
        /\ keepers[tk[p]].sched = "running"

\* C32: a Keeper holds one open handle of its current file at most: when
\* New on a registered name, or a rotation, stores a newly opened handle in
\* currentFile, the handle that was there is not open any more.
C32_HandleClosedBeforeReplaced ==
    [][/\ \A p \in Procs :
             (pc[p] = "new_open" /\ pc'[p] = "ok")
                 => keepers[tk[p]].currentFile # "open"
       /\ \A t \in Threads :
             (pc[t] = "rot_open" /\ pc'[t] # "rot_open")
                 => keepers[tk[t]].currentFile # "open"]_vars

\* C34: a Close whose rotation fails returns the error and leaves the
\* registry, the scheduler of the Keeper and its closed state as they were;
\* a New that then finds the Keeper in the registry locks that Keeper,
\* applies its options to it, reopens the file and returns it.
C34_FailedCloseStaysRegistered ==
    [][/\ \A p \in Procs :
             (/\ op[p] = "Close" /\ pc[p] = "rot_rename"
              /\ pc'[p] \notin {"rot_rename", "rot_open"}) =>
                 /\ pc'[p] = "err"
                 /\ registry' = registry
                 /\ keepers'[tk[p]].sched = keepers[tk[p]].sched
                 /\ keepers'[tk[p]].closed = keepers[tk[p]].closed
                 /\ keepers'[tk[p]].currentFile # "open"
       /\ \A q \in Procs :
             (pc[q] = "register" /\ pc'[q] = "new_lock") =>
                 tk'[q] = registry[opts[q].name]
       /\ \A q \in Procs :
             (pc[q] = "new_open" /\ pc'[q] = "ok") =>
                 /\ ref'[q] = tk[q]
                 /\ lastApplied'[keepers[tk[q]].name] = opts[q]
                 /\ keepers'[tk[q]].currentFile = "open"]_vars

\* the Close of p failed in its rotation, the Keeper is registered and not
\* closed, and a later New returned it to q with the file open again
C34_Witness ==
    \E p, q \in Procs :
        /\ op[p] = "Close" /\ pc[p] = "err"
        /\ op[q] = "New" /\ pc[q] = "ok"
        /\ ref[q] = tk[p]
        /\ registry[keepers[tk[p]].name] = tk[p]
        /\ keepers[tk[p]].closing
        /\ ~keepers[tk[p]].closed
        /\ keepers[tk[p]].currentFile = "open"

\* C39: a Close, Rotate or Write that begins on a Keeper after a Close of
\* that Keeper succeeded leaves the registry as it is.
C39_CallOnClosedKeepsRegistry ==
    [][\A t \in Threads :
          (/\ pc'[t] # pc[t]
           /\ late'[t]
           /\ op'[t] \in {"Close", "Rotate", "Write"}) =>
              registry' = registry]_vars

\* C10: a Write or a Rotate that begins after a successful Close of its
\* Keeper returns an error.
C10_ClosedIsTerminal ==
    \A p \in Procs :
        (pc[p] \in {"ok", "err"} /\ op[p] \in {"Write", "Rotate"} /\ late[p])
            => pc[p] = "err"

\* C11: a Close that succeeds has rotated, and as it returns the name is
\* absent from the registry, the scheduler of the Keeper is not running and
\* its file is closed; the Keeper a New gets from register, its own
\* candidate or the registered one, is never one that was closed before.
C11_CloseThenFreshInstance ==
    [][\A p \in Procs :
         /\ (pc[p] # "c_free" /\ pc'[p] = "c_free") =>
                (pc[p] = "rot_open" /\ op[p] = "Close")
         /\ (pc[p] = "c_free" /\ pc'[p] # "c_free") =>
                /\ pc'[p] = "ok"
                /\ registry'[keepers[tk[p]].name] = 0
                /\ keepers'[tk[p]].sched # "running"
                /\ keepers'[tk[p]].currentFile = "closed"
         /\ (pc[p] = "register" /\ pc'[p] # "register") =>
                ~keepers[tk'[p]].closed]_vars

\* a Keeper was closed and a New with its name has registered and returned
\* another one
C11_Witness ==
    \E p \in Procs, c \in KeeperIds :
        /\ keepers[c].closed /\ keepers[c].currentFile = "closed"
        /\ Returned(p) /\ ref[p] # c
        /\ keepers[ref[p]].name = keepers[c].name
        /\ registry[keepers[c].name] = ref[p]
        /\ tk[p] = ref[p] /\ ~keepers[ref[p]].closed

\* the Keeper was built by a New that found another one registered
LostCandidate(c) ==
    /\ keepers[c].name # "" /\ ~keepers[c].shared
    /\ \A p \in Procs : ~(pc[p] = "register" /\ tk[p] = c)

\* C14: once the New calls have returned, a candidate that lost to the
\* registered Keeper holds no open file and no running scheduler.
C14_LostCandidateReleased ==
    (\A p \in Procs : pc[p] \notin {"register", "new_lock", "new_open"}) =>
        \A c \in KeeperIds :
            LostCandidate(c) => /\ keepers[c].currentFile # "open"
                                /\ keepers[c].sched # "running"

\* C15: when a New on a registered name returns an error, the registered
\* Keeper has the configuration and the scheduler it had before the call
\* (lastApplied, which is what it had when the call took the mutex).
C15_FailedNewKeepsConfig ==
    [][\A p \in Procs :
         LET n == keepers[tk[p]].name
         IN  (/\ pc[p] = "new_open" /\ pc'[p] = "err"
              /\ registry[n] = tk[p] /\ ~CloseBegun(n)) =>
                /\ ConfigOf(tk[p])' = lastApplied[n]
                /\ keepers'[tk[p]].sched =
                      IF lastApplied[n].cron = NoSpec THEN "nil"
                      ELSE "running"]_vars

\* the option lists New is called with: the size limit alone, and the
\* retention limits alone
SizeOpts == [maxSize : {-1, 0, MaxLimit}, maxFiles : {0}, totalSize : {0}]

RetOpts == [maxSize : {0}, maxFiles : {0, MaxKeep}, totalSize : {0, MaxTotal}]

\* the history after a call of rotate with result r
HistRot(h, r, kp, cur, t) ==
    IF r.err = ""
    THEN [h EXCEPT !.nrot = IF @ > MaxKeep THEN @ ELSE @ + 1,
                   !.recent = LastN(Append(@, newArchiveName(t)), MaxKeep + 1),
                   !.big = @ \/ (kp.totalSize > 0 /\ cur > kp.totalSize),
                   !.rerr = "",
                   !.evicted = Len(kp.archives) + 1 - Len(r.k.archives),
                   !.over = shouldDeleteOldest(kp)]
    ELSE [h EXCEPT !.rotOK = FALSE, !.rerr = r.err, !.evicted = 0,
                   !.over = FALSE]

\* the history of a call that is not a Write
HistOp(h, name, ok) ==
    [h EXCEPT !.op = name, !.ok = ok, !.rotated = FALSE, !.pre = 0, !.len = 0,
              !.ret = 0, !.first = FALSE]

(***************************************************************************)
(* The state after the first New in an empty folder, and one action per    *)
(* exported call.                                                          *)
(***************************************************************************)
InitWith(os) ==
    /\ now = 0
    /\ folder = <<>>
    /\ current = 0
    /\ \E o \in os : k = applyOpts(o, NoFile, <<>>)
    /\ hist = NoHist
    /\ glob = NoGlob
    /\ pair = NoPair
    /\ log = NoLog /\ zip = NoZip

\* New with the name of the Keeper
NewFS(o) ==
    /\ k' = applyOpts(o, current, folder)
    /\ current' = (IF current = NoFile THEN 0 ELSE current)
    /\ hist' = NoHist
    /\ UNCHANGED <<folder, now, glob, pair, log, zip, procVars>>

currentFileWritePartialOk(kp, cur, n, m) ==
    [k |-> [kp EXCEPT !.currentFileSize = @ + m], current |-> cur + m,
     ok |-> TRUE, ret |-> m]

\* n, err := k.currentFile.Write(msg) with m bytes appended, and what Write
\* does with the result: return 0, err, or count n and return n, nil
currentFileWrite(kp, cur, n, m) ==
    IF m = n
    THEN [k |-> [kp EXCEPT !.currentFileSize = @ + n], current |-> cur + m,
          ok |-> TRUE, ret |-> n]
    ELSE [k |-> kp, current |-> cur + m, ok |-> FALSE, ret |-> 0]

\* a Write that counts its message when the rotation it started failed
WriteFS_CountsAfterFailedRotate(n, fault, m) ==
    LET rot == shouldRotate(k, n)
        r   == IF rot THEN rotate(k, current, folder, now, fault)
               ELSE [k |-> k, current |-> current, folder |-> folder, err |-> ""]
        h0  == [hist EXCEPT !.op = "Write", !.rotated = rot,
                            !.pre = k.currentFileSize, !.len = n,
                            !.first = (hist.op = "New"),
                            !.evicted = 0, !.over = FALSE]
        h1  == IF rot THEN HistRot(h0, r, k, current, now) ELSE h0
    IN  /\ rot => Len(k.archives) < MaxArchives
        /\ ~rot => fault = "none"
        /\ folder' = r.folder
        /\ IF r.err # "" \/ r.k.currentFile # "open"
           THEN /\ m = n
                /\ k' = [r.k EXCEPT !.currentFileSize = @ + n]
                /\ current' = r.current
                /\ hist' = [h1 EXCEPT !.ok = FALSE, !.ret = 0]
           ELSE LET w == currentFileWrite(r.k, r.current, n, m)
                IN  /\ r.current + m <= MaxFileLen
                    /\ current' = w.current
                    /\ k' = w.k
                    /\ hist' = [h1 EXCEPT !.ok = w.ok, !.ret = w.ret]
        /\ UNCHANGED <<now, glob, pair, log, zip, procVars>>

\* Keeper.Write of n bytes; the append writes all of it (m = n), or m < n
\* bytes and then fails
WriteFS(n, fault, m) ==
    LET rot == shouldRotate(k, n)
        r   == IF rot THEN rotate(k, current, folder, now, fault)
               ELSE [k |-> k, current |-> current, folder |-> folder, err |-> ""]
        h0  == [hist EXCEPT !.op = "Write", !.rotated = rot,
                            !.pre = k.currentFileSize, !.len = n,
                            !.first = (hist.op = "New"),
                            !.evicted = 0, !.over = FALSE]
        h1  == IF rot THEN HistRot(h0, r, k, current, now) ELSE h0
    IN  /\ rot => Len(k.archives) < MaxArchives
        /\ ~rot => fault = "none"
        /\ folder' = r.folder
        /\ IF r.err # "" \/ r.k.currentFile # "open"
           THEN \* rotate failed, or Write on a closed *os.File: return 0, err
                /\ m = n
                /\ k' = r.k
                /\ current' = r.current
                /\ hist' = [h1 EXCEPT !.ok = FALSE, !.ret = 0]
           ELSE LET w == currentFileWrite(r.k, r.current, n, m)
                IN  /\ r.current + m <= MaxFileLen
                    /\ current' = w.current
                    /\ k' = w.k
                    /\ hist' = [h1 EXCEPT !.ok = w.ok, !.ret = w.ret]
        /\ UNCHANGED <<now, glob, pair, log, zip, procVars>>

\* Keeper.Rotate
RotateFS(fault) ==
    LET r == rotate(k, current, folder, now, fault)
    IN  /\ Len(k.archives) < MaxArchives
        /\ k' = r.k
        /\ current' = r.current
        /\ folder' = r.folder
        /\ hist' = HistOp(HistRot(hist, r, k, current, now), "Rotate", r.err = "")
        /\ UNCHANGED <<now, glob, pair, log, zip, procVars>>

\* Keeper.Close: rotate, unregister, free
CloseFS(fault) ==
    LET r == rotate(k, current, folder, now, fault)
    IN  /\ Len(k.archives) < MaxArchives
        /\ k' = IF r.err = "" THEN [r.k EXCEPT !.currentFile = "closed"]
                ELSE r.k
        /\ current' = r.current
        /\ folder' = r.folder
        /\ hist' = HistOp(HistRot(hist, r, k, current, now), "Close", r.err = "")
        /\ UNCHANGED <<now, glob, pair, log, zip, procVars>>

\* time passes: the next archive name differs from the last one
Tick ==
    /\ now < MaxClock
    /\ now' = now + 1
    /\ UNCHANGED <<k, current, folder, hist, glob, pair, log, zip, procVars>>

(***************************************************************************)
(* SpecFS: the write path.  Messages of every length, appends that fail.   *)
(***************************************************************************)
InitFS == InitWith(SizeOpts) /\ InitProcs

NextFS ==
    \/ \E o \in SizeOpts : NewFS(o)
    \/ \E n \in 0..MaxMsgLen, f \in {"none", "rename"}, m \in 0..MaxMsgLen :
          m <= n /\ WriteFS(n, f, m)
    \/ \E f \in {"none", "rename", "found"} : RotateFS(f)
    \/ \E f \in {"none", "rename"} : CloseFS(f)

SpecFS == InitFS /\ [][NextFS]_vars

(***************************************************************************)
(* SpecRet: retention.  Rotations at different and at equal archive names. *)
(***************************************************************************)
InitRet == InitWith(RetOpts) /\ InitProcs

NextRet ==
    \/ \E o \in RetOpts : NewFS(o)
    \/ \E n \in 1..MaxMsgLen : WriteFS(n, "none", n)
    \/ \E f \in {"none", "rename"} : RotateFS(f)
    \/ CloseFS("none")
    \/ Tick

SpecRet == InitRet /\ [][NextRet]_vars

(***************************************************************************)
(* The write path (SpecFS).                                                *)
(***************************************************************************)

\* C5: with size rotation enabled at limit L > 0, right after any successful
\* Write the current file holds at most L bytes, whatever the message length.
C5_FileWithinLimitAfterWrite ==
    (k.maxSize > 0 /\ hist.op = "Write" /\ hist.ok) => current <= k.maxSize

\* C6: a Write rotates before appending exactly when maxSize > 0 and
\* currentFileSize + len(msg) > maxSize: an exact fill does not rotate, the
\* next write does and lands alone in the fresh file, maxSize <= 0 never
\* rotates.
C6_RotateIffWouldExceed ==
    hist.op = "Write" =>
        /\ hist.rotated <=> (k.maxSize > 0 /\ hist.pre + hist.len > k.maxSize)
        /\ (hist.ok /\ hist.rotated) => k.currentFileSize = hist.len
        /\ (hist.ok /\ ~hist.rotated) => k.currentFileSize = hist.pre + hist.len
        /\ k.maxSize <= 0 => ~hist.rotated

\* the file was filled to exactly maxSize, the next non-empty write rotated
\* and is alone in the fresh file
C6_Witness ==
    /\ hist.op = "Write" /\ hist.ok /\ hist.rotated
    /\ hist.pre = k.maxSize /\ hist.len > 0
    /\ current = hist.len /\ folder # <<>>

\* C18: New on a current file that exists leaves its bytes in place, opens
\* it and sets currentFileSize to its length; the first Write after New
\* rotates exactly when size rotation is on (maxSize > 0) and that length
\* plus len(msg) exceeds maxSize.
C18_NewReusesCurrentFile ==
    [][/\ \A o \in SizeOpts :
             (current # NoFile /\ NewFS(o)) =>
                 /\ current' = current
                 /\ k'.currentFile = "open"
                 /\ k'.currentFileSize = current
       /\ \A n \in 0..MaxMsgLen, f \in {"none", "rename"}, m \in 0..MaxMsgLen :
             (hist.op = "New" /\ m <= n /\ WriteFS(n, f, m)) =>
                 (hist'.rotated <=> (k.maxSize > 0 /\ current + n > k.maxSize))]_vars

\* New found a file that was not empty, and the first Write, which would
\* have fitted an empty file, rotated
C18_Witness ==
    /\ hist.op = "Write" /\ hist.first /\ hist.ok /\ hist.rotated
    /\ hist.pre > 0 /\ hist.len <= k.maxSize
    /\ folder # <<>> /\ current = hist.len

\* C21: right after a Rotate that returned nil the counter currentFileSize
\* is the length of the file open at getCurrentFilePath(), also when
\* getCurrentFile found a file there that was not empty.
C21_CounterIsFileLengthAfterRotate ==
    (hist.op = "Rotate" /\ hist.ok) =>
        (k.currentFile = "open" /\ k.currentFileSize = current)

\* C7: whenever the Keeper is open and no call is in progress, the counter
\* currentFileSize equals the true length of the current file.
C7_CounterIsFileLength ==
    k.currentFile = "open" => k.currentFileSize = current

\* the last call was a Write whose append failed: the file is still open
AppendFailed == hist.op = "Write" /\ ~hist.ok /\ k.currentFile = "open"

\* C13: a Write whose append fails returns an error and the count 0, leaves
\* the counter and the archive list as they were when the append began and
\* the Keeper open, and a Write after it succeeds; a Write returns no error
\* only when the whole message was appended and counted.
C13_FailedAppend ==
    [][/\ \A n \in 0..MaxMsgLen, m \in 0..MaxMsgLen :
            (m <= n /\ k.currentFile = "open" /\ WriteFS(n, "none", m)) =>
               LET rot == shouldRotate(k, n)
                   r   == rotate(k, current, folder, now, "none")
                   cnt == IF rot THEN 0 ELSE k.currentFileSize
                   len == IF rot THEN 0 ELSE current
                   arc == IF rot THEN r.k.archives ELSE k.archives
               IN  /\ m < n => /\ ~hist'.ok /\ hist'.ret = 0
                               /\ k'.currentFileSize = cnt
                               /\ k'.archives = arc
                               /\ k'.archivesSize = SumSizes(arc)
                               /\ k'.currentFile = "open"
                   /\ hist'.ok => /\ m = n /\ hist'.ret = n
                                  /\ current' = len + n
                                  /\ k'.currentFileSize = cnt + n
       /\ (AppendFailed /\ \E n \in 0..MaxMsgLen : WriteFS(n, "none", n))
             => hist'.ok]_vars

\* a Write appended a part of its message and failed, the Keeper is open
C13_Witness ==
    /\ AppendFailed /\ hist.ret = 0 /\ hist.len > 0
    /\ current > k.currentFileSize

\* the bytes in the current file and the archives
BytesOnDisk(cur, fol) == (IF cur = NoFile THEN 0 ELSE cur) + SumSizes(fol)

\* C37: a Write whose rotation fails returns 0 and the error, no file gets
\* a byte of the message, and the counter is what it was before the Write.
C37_FailedRotationWritesNothing ==
    [][(hist'.op = "Write" /\ hist'.rotated /\ hist'.rerr # "") =>
          /\ ~hist'.ok
          /\ hist'.ret = 0
          /\ k'.currentFileSize = k.currentFileSize
          /\ BytesOnDisk(current', folder') = BytesOnDisk(current, folder)]_vars

\* a Write of a message started a rotation that failed at the rename
C37_Witness ==
    /\ hist.op = "Write" /\ hist.rotated /\ hist.rerr = "rename"
    /\ ~hist.ok /\ hist.ret = 0 /\ hist.len > 0
    /\ hist.pre > 0
    /\ k.currentFileSize = hist.pre
    /\ current = hist.pre

\* the last rotation failed at os.Rename: the handle is closed, the file is
\* still at the path of the current file
Degraded == k.currentFile = "closed" /\ hist.rerr = "rename"

\* C12: a rotation that fails at the rename leaves the Keeper without an
\* open current file and the Writes that follow fail; a Rotate or a Close
\* made when the rename can succeed again succeeds and recovers the Keeper.
C12_RecoverAfterRenameFailure ==
    [][/\ (hist'.rerr = "rename" /\ hist.rerr # "rename") =>
             k'.currentFile = "closed"
       /\ (Degraded /\ hist'.op = "Write") => ~hist'.ok
       /\ (Degraded /\ RotateFS("none")) =>
             (hist'.ok /\ k'.currentFile = "open")
       /\ (Degraded /\ CloseFS("none")) => hist'.ok]_vars

(***************************************************************************)
(* Retention (SpecRet).                                                    *)
(***************************************************************************)
NamesOf(s) == [i \in 1..Len(s) |-> s[i].filePath]

\* C8: with maxFiles = K > 0, after N > K successful rotations exactly K
\* archives remain on disk and in the archive list, the K most recently
\* rotated ones.
C8_CountRetention ==
    (k.maxFiles > 0 /\ k.totalSize = 0 /\ hist.rotOK /\ hist.nrot > k.maxFiles)
    => /\ Len(folder) = k.maxFiles
       /\ Len(k.archives) = k.maxFiles
       /\ NamesOf(folder) = LastN(hist.recent, k.maxFiles)
       /\ NamesOf(k.archives) = LastN(hist.recent, k.maxFiles)

\* C9: with totalSize = S > 0, after successful rotations none of which
\* archived more than S bytes, the archives on disk hold at most S bytes.
C9_SizeRetention ==
    (k.totalSize > 0 /\ hist.nrot > 0 /\ hist.rotOK /\ ~hist.big)
    => SumSizes(folder) <= k.totalSize

\* two rotations at different names, the older archive was evicted to keep
\* the total within S
C9_Witness ==
    /\ k.totalSize > 0 /\ k.maxFiles = 0 /\ hist.rotOK /\ ~hist.big
    /\ Len(hist.recent) = 2 /\ hist.recent[1] # hist.recent[2]
    /\ NamesOf(folder) = <<hist.recent[2]>>
    /\ SumSizes(folder) > 0

\* the last call rotated and the rotation returned nil
RotationSucceeded ==
    \/ hist.op \in {"Rotate", "Close"} /\ hist.ok
    \/ hist.op = "Write" /\ hist.rotated /\ hist.rerr = "" /\ hist.ok

\* C20: after every rotation that succeeded, every retention limit that is
\* on holds for the archive list: at most maxFiles records when
\* maxFiles > 0, archivesSize at most totalSize when totalSize > 0, however
\* far over the limits the list was before the rotation.
C20_LimitsHoldAfterRotation ==
    RotationSucceeded =>
        /\ k.maxFiles > 0 => Len(k.archives) <= k.maxFiles
        /\ k.totalSize > 0 => k.archivesSize <= k.totalSize

\* the list was over a limit before the rotation (an archive the scan
\* found, a limit New lowered), and the rotation evicted more than once
C20_Witness ==
    /\ RotationSucceeded /\ hist.over /\ hist.evicted >= 2
    /\ k.totalSize > 0 /\ k.archivesSize <= k.totalSize

\* C38: with totalSize = S > 0, a rotation that archives a file of more
\* than S bytes succeeds and leaves no archive: the list is empty, the
\* total is 0, the folder holds no archive.
C38_OversizedArchiveEmptiesList ==
    [][(/\ k.totalSize > 0
        /\ k.currentFile = "open"
        /\ current # NoFile
        /\ current > k.totalSize
        /\ RotateFS("none") \/ CloseFS("none")) =>
           /\ hist'.ok
           /\ k'.archives = <<>>
           /\ k'.archivesSize = 0
           /\ folder' = <<>>]_vars

\* the options the Keeper was built with
OptsOf(kp) == [maxSize |-> kp.maxSize, maxFiles |-> kp.maxFiles,
               totalSize |-> kp.totalSize, gzip |-> kp.gzip]

\* C17: after rotations that all succeeded, a New with the same options in
\* a new process (the scan of the folder) rebuilds the archive list the
\* old process had: the same records in the same order, the same total.
C17_RescanRebuildsArchives ==
    [][(hist.rotOK /\ NewFS(OptsOf(k))) =>
          /\ k'.archives = k.archives
          /\ k'.archivesSize = k.archivesSize]_vars

(***************************************************************************)
(* SpecGlob: one layout, name, extension and rotation time; the archive    *)
(* name is rendered, the glob pattern is rendered, the pattern is matched  *)
(* against the name.                                                       *)
(***************************************************************************)
Tokens == {"time", "name", "extension", "-"}

Layouts == UNION {[1..n -> Tokens] : n \in 1..MaxLayoutLen}

\* WithName values
GlobNames == {<<"a">>, <<"[", "a", "]">>}

\* WithExtension values
Extensions == {<<".", "l">>}

\* now().Format(k.timeLayout) for the layouts "2" and "1/2"
Times == {<<"1">>, <<"1", "/", "2">>}

InitGlob ==
    /\ InitProcs
    /\ now = 0 /\ folder = <<>> /\ current = NoFile
    /\ k = NoKeeper /\ hist = NoHist
    /\ pair = NoPair /\ log = NoLog /\ zip = NoZip
    /\ \E tpl \in Layouts, time \in Times, name \in GlobNames,
          extension \in Extensions :
          glob = [NoGlob EXCEPT !.stage = "new", !.tpl = tpl, !.time = time,
                                !.name = name, !.extension = extension]

\* the rotation renders the archive name, the scan renders the pattern
Render ==
    /\ glob.stage = "new"
    /\ glob' = [glob EXCEPT
                  !.stage = "rendered",
                  !.archive = newArchiveNameOf(glob.tpl, glob.time, glob.name,
                                               glob.extension),
                  !.pattern = getArchiveGlobPattern(glob.tpl, glob.name,
                                                    glob.extension)]
    /\ UNCHANGED <<k, current, folder, now, hist, pair, log, zip, procVars>>

\* filepath.Glob(pattern) with the archive on disk, and with the archive
\* a compressing Keeper leaves there
GlobScan ==
    /\ glob.stage = "rendered"
    /\ glob' = [glob EXCEPT !.stage = "matched",
                            !.matched = Match(glob.pattern, glob.archive),
                            !.zmatched = Match(glob.pattern,
                                               glob.archive \o compressionExt)]
    /\ UNCHANGED <<k, current, folder, now, hist, pair, log, zip, procVars>>

NextGlob == Render \/ GlobScan

SpecGlob == InitGlob /\ [][NextGlob]_vars

\* C16: for every layout, name, extension and rotation time, the archive
\* name newArchiveName renders is matched by the pattern
\* getArchiveGlobPattern renders.
C16_RenderMatchesGlob == glob.stage = "matched" => glob.matched

\* C27: the pattern ends in "*", and it matches the archive of every
\* rotation, the one without and the one with the compression suffix.
C27_GlobMatchesWithSuffix ==
    glob.stage = "matched" =>
        /\ glob.pattern[Len(glob.pattern)] = "*"
        /\ glob.matched
        /\ glob.zmatched

(***************************************************************************)
(* SpecPair: Keepers "a" and "b" in one folder with one archive name       *)
(* layout that names the time, as every layout of the documentation does.  *)
(* made[n] is the set of archives n renamed into place and did not evict,  *)
(* calls the number of calls made so far.                                  *)
(***************************************************************************)
PairLayouts == {tpl \in Layouts : \E i \in 1..Len(tpl) : tpl[i] = "time"}

PairOpts == [maxSize : {0}, maxFiles : {0, MaxKeep}, totalSize : {0}]

InitPair ==
    /\ InitProcs
    /\ now = 0 /\ folder = <<>> /\ current = NoFile
    /\ k = NoKeeper /\ hist = NoHist /\ glob = NoGlob /\ log = NoLog /\ zip = NoZip
    /\ \E tpl \in PairLayouts : pair = [NoPair EXCEPT !.tpl = tpl]

\* New(WithName(n), ...): getCurrentFile creates the file when it is
\* missing, Stat, getArchives with the pattern of n
NewPair(n, o) ==
    LET cp     == getCurrentFilePath(n)
        files1 == IF cp \in PathsOf(pair.files) THEN pair.files
                  ELSE Append(pair.files, [filePath |-> cp, size |-> 0])
        found  == Glob(files1, getArchiveGlobPattern(pair.tpl, n, PairExtension))
    IN  /\ pair.k[n].currentFile = "nil"
        /\ pair.calls < MaxCalls
        /\ pair' = [pair EXCEPT !.calls = @ + 1, !.files = files1,
                                !.k[n] = applyOpts(o, SizeAt(files1, cp), found)]
        /\ UNCHANGED <<k, current, folder, now, hist, glob, log, zip, procVars>>

\* Keeper.rotate of n in the shared folder
rotatePair(n) ==
    LET cp == getCurrentFilePath(n)
        r  == rotate(pair.k[n], SizeAt(pair.files, cp), RemovePath(pair.files, cp),
                     newArchiveNameOf(pair.tpl, Format(now), n, PairExtension),
                     "none")
    IN  [k     |-> r.k,
         err   |-> r.err,
         files |-> IF r.current = NoFile THEN r.folder
                   ELSE Append(r.folder, [filePath |-> cp, size |-> r.current]),
         made  |-> IF r.err = "rename" THEN pair.made[n]
                   ELSE (pair.made[n] \cup
                           {newArchiveNameOf(pair.tpl, Format(now), n,
                                             PairExtension)})
                        \cap PathsOf(r.folder)]

\* Keeper.Rotate of n
RotatePair(n) ==
    LET r == rotatePair(n)
    IN  /\ pair.k[n].currentFile = "open"
        /\ pair.calls < MaxCalls
        /\ pair' = [pair EXCEPT !.calls = @ + 1, !.k[n] = r.k, !.files = r.files,
                                !.made[n] = r.made]
        /\ UNCHANGED <<k, current, folder, now, hist, glob, log, zip, procVars>>

\* Keeper.Close of n
ClosePair(n) ==
    LET r == rotatePair(n)
    IN  /\ pair.k[n].currentFile = "open"
        /\ pair.calls < MaxCalls
        /\ pair' = [pair EXCEPT
                      !.calls = @ + 1,
                      !.k[n] = IF r.err = "" THEN [r.k EXCEPT !.currentFile = "closed"]
                               ELSE r.k,
                      !.files = r.files, !.made[n] = r.made]
        /\ UNCHANGED <<k, current, folder, now, hist, glob, log, zip, procVars>>

\* Keeper.Write of one byte by n, size rotation off.  The handle stays
\* valid when the path was removed: the byte goes to the unlinked file.
WritePair(n) ==
    LET cp == getCurrentFilePath(n)
        sz == SizeAt(pair.files, cp)
    IN  /\ pair.k[n].currentFile = "open"
        /\ pair.k[n].currentFileSize < MaxLimit
        /\ pair.calls < MaxCalls
        /\ pair' = [pair EXCEPT
                      !.calls = @ + 1,
                      !.k[n].currentFileSize = @ + 1,
                      !.files = IF sz = NoFile THEN @
                                ELSE Append(RemovePath(@, cp),
                                            [filePath |-> cp, size |-> sz + 1])]
        /\ UNCHANGED <<k, current, folder, now, hist, glob, log, zip, procVars>>

NextPair ==
    \/ \E n \in PairNames, o \in PairOpts : NewPair(n, o)
    \/ \E n \in PairNames : RotatePair(n)
    \/ \E n \in PairNames : ClosePair(n)
    \/ \E n \in PairNames : WritePair(n)
    \/ Tick

SpecPair == InitPair /\ [][NextPair]_vars

\* C19: for Keepers n and m of different names, a Write, Rotate or Close of
\* n (evictions included) leaves alone the current file of m, the counter
\* and the archive list of m, and every archive m made.
C19_DifferentNamesIndependent ==
    [][\A n, m \in PairNames :
          (/\ n # m
           /\ pair.k[m].currentFile # "nil"
           /\ RotatePair(n) \/ ClosePair(n) \/ WritePair(n)) =>
              /\ SizeAt(pair'.files, getCurrentFilePath(m))
                    = SizeAt(pair.files, getCurrentFilePath(m))
              /\ pair'.k[m] = pair.k[m]
              /\ pair'.made[m] = pair.made[m]
              /\ \A f \in pair.made[m] :
                    SizeAt(pair'.files, f) = SizeAt(pair.files, f)]_vars

\* C33: the archive list of a Keeper never holds the path of its own
\* current file.
C33_CurrentFileIsNoArchive ==
    \A n \in PairNames :
        getCurrentFilePath(n) \notin PathsOf(pair.k[n].archives)

(***************************************************************************)
(* SpecZip: one Keeper named "a" with the default archive name layout of   *)
(* New, "{{ .time }}-{{ .name }}{{ .extension }}", with and without        *)
(* WithGzip.  The pattern of this layout does not match the current file,  *)
(* so folder holds the archives, compressed or not, and what a failed      *)
(* compress left behind, oldest modification time first.  A run makes     *)
(* MaxCalls calls of New and Rotate.                                       *)
(***************************************************************************)
DefaultLayout == <<"time", "-", "name", "extension">>

ZipName == <<"a">>

ZipOpts == [maxSize : {0}, maxFiles : {0, MaxKeep}, totalSize : {0},
            gzip : BOOLEAN]

\* Keeper.newArchiveName at clock t
ZipArchiveName(t) ==
    newArchiveNameOf(DefaultLayout, Format(t), ZipName, PairExtension)

\* Keeper.getArchives: the files of the folder the pattern matches
ZipScan(fol) ==
    Glob(fol, getArchiveGlobPattern(DefaultLayout, ZipName, PairExtension))

InitZip ==
    /\ InitProcs
    /\ now = 0 /\ folder = <<>> /\ current = 0
    /\ hist = NoHist /\ glob = NoGlob /\ pair = NoPair /\ log = NoLog /\ zip = NoZip
    /\ \E o \in ZipOpts : k = applyOpts(o, NoFile, <<>>)

\* New in a later run, or again in this one
NewZip(o) ==
    /\ calls < MaxCalls
    /\ calls' = calls + 1
    /\ k' = applyOpts(o, current, ZipScan(folder))
    /\ current' = (IF current = NoFile THEN 0 ELSE current)
    /\ hist' = NoHist
    /\ UNCHANGED <<folder, now, glob, pair, log, zip, procRest>>

\* New while the matched file f is removed by someone else between
\* filepath.Glob and its os.Stat.  applyOpts has set the options and
\* reopened the current file by then; k.archives and k.archivesSize are
\* assigned after a scan that returned no error only.  One file vanishes
\* between two scans that succeed.
NewZipVanish(o, f) ==
    LET matches == ZipScan(folder)
        scan    == getArchivesStat(matches, RemovePath(folder, f))
    IN  /\ calls < MaxCalls
        /\ calls' = calls + 1
        /\ k.archives = matches
        /\ f \in PathsOf(matches)
        /\ folder' = RemovePath(folder, f)
        /\ k' = IF scan.err = "" THEN applyOpts(o, current, scan.list)
                ELSE [applyOpts(o, current, <<>>) EXCEPT
                        !.archives = k.archives,
                        !.archivesSize = k.archivesSize]
        /\ current' = (IF current = NoFile THEN 0 ELSE current)
        /\ hist' = [NoHist EXCEPT !.ok = (scan.err = ""), !.rerr = scan.err]
        /\ UNCHANGED <<now, glob, pair, log, zip, procRest>>

\* Keeper.Rotate
RotateZip(fault) ==
    LET r == rotate(k, current, folder, ZipArchiveName(now), fault)
    IN  /\ calls < MaxCalls
        /\ calls' = calls + 1
        /\ Len(k.archives) < MaxArchives
        /\ k.gzip => compressedBefore(folder, ZipArchiveName(now)) <= MaxLimit
        /\ k.archivesSize <= MaxArchives * MaxLimit
        /\ fault = "compress" => k.gzip
        /\ k' = r.k
        /\ current' = r.current
        /\ folder' = r.folder
        /\ hist' = HistOp(HistRot(hist, r, k, current, ZipArchiveName(now)),
                          "Rotate", r.err = "")
        /\ UNCHANGED <<now, glob, pair, log, zip, procRest>>

NextZip ==
    \/ \E o \in ZipOpts : NewZip(o)
    \/ \E o \in ZipOpts, f \in PathsOf(folder) : NewZipVanish(o, f)
    \/ \E n \in 1..MaxLimit : current + n <= MaxLimit /\ WriteFS(n, "none", n)
    \/ \E f \in {"none", "rename", "compress"} : RotateZip(f)
    \/ Tick

SpecZip == InitZip /\ [][NextZip]_vars

\* the archive name the last rotation rendered
LastArchive == hist.recent[Len(hist.recent)]

\* C22: after a Rotate of a compressing Keeper returned nil, the archive
\* it renamed into place is gone, the file of that name with the
\* compression suffix exists, and the newest record of the archive list
\* is that file with the length it has on disk.
C22_CompressedArchiveReplacesPlain ==
    (hist.op = "Rotate" /\ hist.ok /\ k.gzip) =>
        /\ LastArchive \notin PathsOf(folder)
        /\ (LastArchive \o compressionExt) \in PathsOf(folder)
        /\ k.archives # <<>>
        /\ k.archives[Len(k.archives)]
              = getFileInfo(folder, LastArchive \o compressionExt)

C29_ArchivesSizeIsSum == k.archivesSize = SumSizes(k.archives)

\* C30: between two calls the records of the archive list name pairwise
\* distinct paths, and each names a file of the folder.
C30_RecordsDistinctAndOnDisk ==
    /\ \A i, j \in 1..Len(k.archives) :
          i # j => k.archives[i].filePath # k.archives[j].filePath
    /\ \A i \in 1..Len(k.archives) :
          k.archives[i].filePath \in PathsOf(folder)

\* C25: when the stat of a matched file fails during the scan of New, New
\* fails and the scan hands over no list: the archive list and its total
\* are not assigned, not even from the files whose stat succeeded.
C25_ScanFailsWhole ==
    [][\* the steps of NewZipVanish: a New during which a file vanished
       (hist'.op = "New" /\ Len(folder') < Len(folder)) =>
           /\ ~hist'.ok /\ hist'.rerr = "stat"
           /\ k'.archives = k.archives
           /\ k'.archivesSize = k.archivesSize]_vars

\* New failed at the stat of a file that vanished while other archives
\* were there to be listed
C25_Witness ==
    /\ hist.op = "New" /\ ~hist.ok /\ hist.rerr = "stat"
    /\ ZipScan(folder) # <<>>
    /\ k.archives # ZipScan(folder)

\* C23: when compress fails, Rotate returns the error, the file compress
\* opened stays in the folder next to the archive, the archive list and
\* its total are as before, no archive is removed and the current file is
\* not reopened.
C23_CompressFailureStops ==
    [][(k.currentFile = "open" /\ current # NoFile /\ RotateZip("compress")) =>
          /\ ~hist'.ok /\ hist'.rerr = "compress"
          /\ ZipArchiveName(now) \in PathsOf(folder')
          /\ (ZipArchiveName(now) \o compressionExt) \in PathsOf(folder')
          /\ PathsOf(folder) \subseteq PathsOf(folder')
          /\ k'.archives = k.archives /\ k'.archivesSize = k.archivesSize
          /\ k'.currentFile = "closed" /\ current' = NoFile]_vars

\* compress failed with the list at maxFiles (the rotation, had it gone on,
\* would have evicted), and the file compress opened lies next to the archive
C23_Witness ==
    /\ hist.op = "Rotate" /\ hist.rerr = "compress" /\ ~hist.ok
    /\ k.gzip /\ k.currentFile = "closed" /\ current = NoFile
    /\ k.maxFiles > 0 /\ Len(k.archives) >= k.maxFiles
    /\ \E f \in PathsOf(folder) : (f \o compressionExt) \in PathsOf(folder)

(***************************************************************************)
(* SpecLog: the bytes.  One Keeper without retention limits, Write from    *)
(* every goroutine (the mutex puts the calls in one order), Rotate, the    *)
(* clock.  log.files holds the bytes of every archive, log.cur the bytes   *)
(* of the file at getCurrentFilePath(), log.sent the messages of the       *)
(* Writes that returned nil, in the order they held the mutex.             *)
(***************************************************************************)
LogOpts == [maxSize : {0, MaxLimit}, maxFiles : {0}, totalSize : {0}]

\* the n bytes of the message goroutine w writes as message number i
Message(w, i, n) == [j \in 1..n |-> <<w, i, j>>]

\* a rotation that copies the current file and leaves it as it is
rotateDataCopy(lg, name) ==
    LET Other(f) == f.filePath # name
    IN  [lg EXCEPT !.files = SelectSeq(@, Other)
                               \o <<[filePath |-> name, data |-> lg.cur]>>]

\* the bytes after os.Rename(getCurrentFilePath(), name) and getCurrentFile:
\* the archive holds the bytes of the current file, the current file is new
rotateData(lg, name) ==
    LET Other(f) == f.filePath # name
    IN  [lg EXCEPT !.files = SelectSeq(@, Other)
                               \o <<[filePath |-> name, data |-> lg.cur]>>,
                   !.cur = <<>>]

InitLog == InitWith(LogOpts) /\ InitProcs

\* Keeper.Write of n bytes by goroutine w, every step of it succeeding
WriteLog(w, n) ==
    LET rot == shouldRotate(k, n)
        r   == IF rot THEN rotate(k, current, folder, now, "none")
               ELSE [k |-> k, current |-> current, folder |-> folder, err |-> ""]
        wr  == currentFileWrite(r.k, r.current, n, n)
        lg  == IF rot THEN rotateData(log, newArchiveName(now)) ELSE log
        msg == Message(w, Len(log.sent) + 1, n)
        h0  == [hist EXCEPT !.op = "Write", !.rotated = rot,
                            !.pre = k.currentFileSize, !.len = n,
                            !.first = (hist.op = "New"),
                            !.evicted = 0, !.over = FALSE]
        h1  == IF rot THEN HistRot(h0, r, k, current, now) ELSE h0
    IN  /\ calls < MaxCalls
        /\ calls' = calls + 1
        \* goroutines are alike: they are numbered in the order of their
        \* first bytes
        /\ \A v \in Procs : v < w =>
              \E m \in 1..Len(log.sent) :
                  log.sent[m] # <<>> /\ log.sent[m][1][1] = v
        /\ r.err = ""
        /\ k' = wr.k
        /\ current' = wr.current
        /\ folder' = r.folder
        /\ hist' = [h1 EXCEPT !.ok = wr.ok, !.ret = wr.ret]
        /\ log' = [lg EXCEPT !.cur = @ \o msg, !.sent = Append(@, msg)]
        /\ UNCHANGED <<now, glob, pair, zip, procRest>>

\* Keeper.Rotate, every step of it succeeding
RotateLog ==
    LET r == rotate(k, current, folder, now, "none")
    IN  /\ calls < MaxCalls
        /\ calls' = calls + 1
        /\ r.err = ""
        /\ k' = r.k
        /\ current' = r.current
        /\ folder' = r.folder
        /\ hist' = HistOp(HistRot(hist, r, k, current, now), "Rotate", TRUE)
        /\ log' = rotateData(log, newArchiveName(now))
        /\ UNCHANGED <<now, glob, pair, zip, procRest>>

NextLog ==
    \/ \E w \in Procs, n \in 0..MaxMsgLen : WriteLog(w, n)
    \/ RotateLog
    \/ Tick

SpecLog == InitLog /\ [][NextLog]_vars

\* the bytes of the file at path p
DataOf(p) ==
    LET i == CHOOSE j \in 1..Len(log.files) : log.files[j].filePath = p
    IN  log.files[i].data

\* the archive names of the rotations so far differ pairwise
DistinctArchiveNames ==
    \A i, j \in 1..Len(k.archives) :
        i # j => k.archives[i].filePath # k.archives[j].filePath

\* the files in rotation order, the current file last
FilesInOrder ==
    [i \in 1..Len(k.archives) |-> DataOf(k.archives[i].filePath)]
        \o <<log.cur>>

\* the bytes d hold the bytes m side by side
HoldsWhole(d, m) ==
    \E o \in 0..(Len(d) - Len(m)) : SubSeq(d, o + 1, o + Len(m)) = m

\* C31: without retention limits and with archive names that differ, the
\* archives in rotation order followed by the current file are the messages
\* of the successful Writes in the order the Writes held the mutex, every
\* message lies whole in one file, and no byte is stored twice.
C31_MessagesStoredOnceInOrder ==
    (k.maxFiles = 0 /\ k.totalSize = 0 /\ DistinctArchiveNames) =>
        /\ Concat(FilesInOrder) = Concat(log.sent)
        /\ \A m \in 1..Len(log.sent) :
              \E f \in 1..Len(FilesInOrder) :
                  HoldsWhole(FilesInOrder[f], log.sent[m])
        /\ Len(log.files) = Len(k.archives)
        /\ \A i \in 1..Len(log.files) :
              Len(log.files[i].data) = getFileInfo(folder, log.files[i].filePath).size
        /\ Len(log.cur) = current

\* two archives and the current file hold bytes of two goroutines, and the
\* last Write rotated
C31_Witness ==
    /\ DistinctArchiveNames
    /\ Len(k.archives) = 2
    /\ \A i \in 1..2 : DataOf(k.archives[i].filePath) # <<>>
    /\ log.cur # <<>>
    /\ hist.op = "Write" /\ hist.ok /\ hist.rotated
    /\ \E a, b \in 1..Len(log.sent) :
          /\ log.sent[a] # <<>> /\ log.sent[b] # <<>>
          /\ log.sent[a][1][1] # log.sent[b][1][1]

(***************************************************************************)
(* SpecGz: Keeper.compress statement by statement.  zip.data are the bytes *)
(* of the archive, zip.plain says that the archive file exists, zip.gz are *)
(* the bytes of the file name + compressionExt (zip.had: the file exists), *)
(* zip.buf the bytes the gzip writer holds and has not written to the file.*)
(* A gzip stream is a sequence of units <<id, j, length>>; the last unit   *)
(* is the trailer with the checksum, which gzip.Writer.Close writes.       *)
(***************************************************************************)
\* the gzip stream number id of n bytes
Stream(id, n) == [j \in 1..gzipSize(n) |-> <<id, j, gzipSize(n)>>]

\* the bytes d hold every unit of the stream s
HoldsStream(d, s) ==
    \A j \in 1..Len(s) : \E i \in 1..Len(d) : d[i] = s[j]

\* the archive rotate has just renamed into place; a file with the name of
\* the compressed archive is absent, or holds the stream of an earlier
\* rotation that rendered the same name
InitGz ==
    /\ InitProcs
    /\ now = 0 /\ folder = <<>> /\ current = NoFile
    /\ k = NoKeeper /\ hist = NoHist /\ glob = NoGlob
    /\ pair = NoPair /\ log = NoLog
    /\ \E n \in 0..MaxFileLen, earlier \in {NoFile} \cup (0..MaxLimit) :
          zip = [NoZip EXCEPT
                   !.pc = "open",
                   !.data = [j \in 1..n |-> j],
                   !.plain = TRUE,
                   !.had = (earlier # NoFile),
                   !.gz = IF earlier = NoFile THEN <<>>
                          ELSE Stream(1, earlier)]

\* the deferred compressor.Close(), cf.Close() and f.Close() of a return:
\* the writer hands what it holds to the file, all of it or, when the
\* write fails, the first w units; the error is not looked at
deferredClose(z, w, err) ==
    [z EXCEPT !.pc = "done", !.err = err,
              !.gz = IF z.buf = <<>> THEN @ ELSE @ \o SubSeq(z.buf, 1, w),
              !.buf = <<>>]

\* f, err := os.Open(name)
GzOpen(fault) ==
    /\ zip.pc = "open"
    /\ zip' = IF fault THEN [zip EXCEPT !.pc = "done", !.err = "open"]
              ELSE [zip EXCEPT !.pc = "create"]
    /\ UNCHANGED <<k, current, folder, now, hist, glob, pair, log, procVars>>

\* cf, err := os.OpenFile(name+k.compressionExt, O_APPEND|O_CREATE|O_WRONLY)
\* and the constructor of the gzip writer
GzCreate(fault) ==
    /\ zip.pc = "create"
    /\ zip' = IF fault THEN [zip EXCEPT !.pc = "done", !.err = "create"]
              ELSE [zip EXCEPT !.pc = "copy", !.had = TRUE]
    /\ UNCHANGED <<k, current, folder, now, hist, glob, pair, log, procVars>>

\* _, err = f.WriteTo(compressor): the writer takes the bytes of the
\* archive and writes the first w units of the stream to the file
GzCopy(w, fault) ==
    LET s == Stream(2, Len(zip.data))
        z == [zip EXCEPT !.gz = @ \o SubSeq(s, 1, w),
                         !.buf = SubSeq(s, w + 1, Len(s))]
    IN  /\ zip.pc = "copy"
        /\ w < Len(s)
        /\ zip' = IF fault THEN deferredClose(z, 0, "write")
                  ELSE [z EXCEPT !.pc = "remove"]
        /\ UNCHANGED <<k, current, folder, now, hist, glob, pair, log, procVars>>

\* os.Remove(name)
GzRemove(fault) ==
    /\ zip.pc = "remove"
    /\ zip' = IF fault THEN deferredClose(zip, Len(zip.buf), "remove")
              ELSE [zip EXCEPT !.pc = "close", !.plain = FALSE]
    /\ UNCHANGED <<k, current, folder, now, hist, glob, pair, log, procVars>>

\* return nil: the deferred Close calls run
GzReturn(w) ==
    /\ zip.pc = "close"
    /\ w \in 0..Len(zip.buf)
    /\ zip' = deferredClose(zip, w, "")
    /\ UNCHANGED <<k, current, folder, now, hist, glob, pair, log, procVars>>

NextGz ==
    \/ \E fault \in BOOLEAN : GzOpen(fault)
    \/ \E fault \in BOOLEAN : GzCreate(fault)
    \/ \E w \in 0..MaxFileLen, fault \in BOOLEAN : GzCopy(w, fault)
    \/ \E fault \in BOOLEAN : GzRemove(fault)
    \/ \E w \in 0..(MaxFileLen + 1) : GzReturn(w)

SpecGz == InitGz /\ [][NextGz]_vars

\* C35: at every statement of compress the bytes of the archive are whole
\* in a file of the folder: the archive is there, or the compressed file
\* holds the whole gzip stream of it.
C35_ArchiveBytesAlwaysOnDisk ==
    zip.pc # "idle" =>
        (zip.plain \/ HoldsStream(zip.gz, Stream(2, Len(zip.data))))

(***************************************************************************)
(* SpecOpts: New on the registered name "a" with every list of at most     *)
(* MaxOpts options.  An option is <<kind, value>>; k is the configuration  *)
(* of the shared Keeper, sizes in Mb, hist the options of the last New and *)
(* of the New before it.                                                   *)
(***************************************************************************)
\* defaultOpts of New; the temporary folder is "tmp"
defaultOpts ==
    << <<"folder", <<"t", "m", "p">> >>, <<"name", <<"k">> >>,
       <<"extension", <<".", "l", "o", "g">> >>, <<"timeLayout", "nano">>,
       <<"maxSize", 15>>, <<"layout", DefaultLayout>>, <<"maxFiles", 0>>,
       <<"nocron", 0>>, <<"nocompression", 0>>, <<"totalSize", 0>> >>

\* the options a call may name, WithFolder("") among them
Options ==
    { <<"folder", <<>> >>, <<"folder", <<"d">> >>, <<"extension", <<"x">> >>,
      <<"maxSize", 1>>, <<"maxFiles", 1>>, <<"totalSize", 1>>,
      <<"gzip", 0>>, <<"cron", 1>>, <<"layout", <<"name", "time">> >> }

\* option lists of at most n options
RECURSIVE OptLists(_)
OptLists(n) ==
    IF n = 0 THEN {<<>>}
    ELSE LET shorter == OptLists(n - 1)
         IN  shorter \cup {Append(l, o) : l \in shorter, o \in Options}

\* one Opt applied to the Keeper
applyOpt(kp, o) ==
    CASE o[1] = "folder" ->
           IF Len(o[2]) > 0 THEN [kp EXCEPT !.folder = o[2]] ELSE kp
      [] o[1] = "name" ->
           IF Len(o[2]) > 0 THEN [kp EXCEPT !.name = o[2]] ELSE kp
      [] o[1] = "extension" ->
           [kp EXCEPT !.extension =
               IF Len(o[2]) > 0 /\ o[2][1] # "." THEN <<".">> \o o[2] ELSE o[2]]
      [] o[1] = "timeLayout" -> [kp EXCEPT !.timeLayout = o[2]]
      [] o[1] = "maxSize" -> [kp EXCEPT !.maxSize = o[2]]
      [] o[1] = "layout" ->
           IF Len(o[2]) = 0 THEN kp ELSE [kp EXCEPT !.layout = o[2]]
      [] o[1] = "maxFiles" -> [kp EXCEPT !.maxFiles = o[2]]
      [] o[1] = "cron" -> [kp EXCEPT !.cron = o[2]]
      [] o[1] = "nocron" -> [kp EXCEPT !.cron = NoSpec]
      [] o[1] = "gzip" -> [kp EXCEPT !.gzip = TRUE]
      [] o[1] = "nocompression" -> [kp EXCEPT !.gzip = FALSE]
      [] o[1] = "totalSize" -> [kp EXCEPT !.totalSize = o[2]]

\* the loop of applyOpts
RECURSIVE applyEach(_, _)
applyEach(kp, os) ==
    IF os = <<>> THEN kp ELSE applyEach(applyOpt(kp, Head(os)), Tail(os))

\* getCurrentFile opens the file at getCurrentFilePath()
openCurrentFile(kp) ==
    [kp EXCEPT !.path = kp.folder \o <<"/">> \o kp.name \o kp.extension]

\* a New that applies the options of the call alone
reconfigureOwnOptions(kp, os) == openCurrentFile(applyEach(kp, os))

\* New on the Keeper: finalOpts := append(defaultOpts, opts...), applyOpts
reconfigure(kp, os) == openCurrentFile(applyEach(kp, defaultOpts \o os))

\* new(Keeper)
ZeroKeeper ==
    [folder |-> <<>>, name |-> <<>>, extension |-> <<>>, timeLayout |-> "",
     maxSize |-> 0, layout |-> <<>>, maxFiles |-> 0, cron |-> NoSpec,
     gzip |-> FALSE, totalSize |-> 0, path |-> <<>>]

\* New(WithName("a"), os...) by the first caller
InitOpts ==
    /\ InitProcs
    /\ now = 0 /\ folder = <<>> /\ current = NoFile
    /\ glob = NoGlob /\ pair = NoPair /\ log = NoLog /\ zip = NoZip
    /\ \E os \in OptLists(MaxOpts) :
          /\ k = reconfigure(ZeroKeeper, <<<<"name", <<"a">> >>>> \o os)
          /\ hist = [given |-> os, before |-> <<>>, calls |-> 1]

\* New(WithName("a"), os...) when "a" is registered
NewRegistered(os) ==
    /\ hist.calls < 2
    /\ k' = reconfigure(k, <<<<"name", <<"a">> >>>> \o os)
    /\ hist' = [given |-> os, before |-> hist.given, calls |-> hist.calls + 1]
    /\ UNCHANGED <<current, folder, now, glob, pair, log, zip, procVars>>

NextOpts == \E os \in OptLists(MaxOpts) : NewRegistered(os)

SpecOpts == InitOpts /\ [][NextOpts]_vars

\* the list os names an option of one of these kinds
NamesKind(os, kinds) == \E i \in 1..Len(os) : os[i][1] \in kinds

\* C36: after a New on the registered name every option the call did not
\* name has its default on the shared Keeper, whatever the call before set,
\* and the path of the current file is that of the new folder, name and
\* extension.
C36_UnnamedOptionsAreDefault ==
    /\ ~NamesKind(hist.given, {"folder"}) => k.folder = <<"t", "m", "p">>
    /\ ~NamesKind(hist.given, {"extension"}) => k.extension = <<".", "l", "o", "g">>
    /\ ~NamesKind(hist.given, {"maxSize"}) => k.maxSize = 15
    /\ ~NamesKind(hist.given, {"layout"}) => k.layout = DefaultLayout
    /\ ~NamesKind(hist.given, {"maxFiles"}) => k.maxFiles = 0
    /\ ~NamesKind(hist.given, {"totalSize"}) => k.totalSize = 0
    /\ ~NamesKind(hist.given, {"gzip"}) => ~k.gzip
    /\ ~NamesKind(hist.given, {"cron"}) => k.cron = NoSpec
    /\ k.timeLayout = "nano"
    /\ k.name = <<"a">>
    /\ k.path = k.folder \o <<"/">> \o k.name \o k.extension

\* the New before set the folder, the size limit and compression, the last
\* New named none of them
C36_Witness ==
    /\ hist.calls = 2
    /\ NamesKind(hist.before, {"gzip"})
    /\ \E i \in 1..Len(hist.before) : hist.before[i] = <<"folder", <<"d">> >>
    /\ ~NamesKind(hist.given, {"gzip", "folder", "maxSize", "extension"})
    /\ NamesKind(hist.given, {"maxFiles"})
    /\ k.maxFiles = 1
    /\ k.path = <<"t", "m", "p", "/", "a", ".", "l", "o", "g">>

=============================================================================
